---- MODULE Spec2Model ----
(***************************************************************************)
(* A model of compiler/rustc_middle/src/ty/relate.rs: the generalized type *)
(* relating mechanism.  Every relate function of the source is an operator *)
(* computing an outcome record                                             *)
(*     [tag |-> "Ok" | "Err" | "Bug", val |-> ..., log |-> <<...>>]          *)
(* where "Ok"/"Err" are the two sides of RelateResult, "Bug" is an abort   *)
(* (bug!, assert!, todo!), and log is the sequence of calls made on the    *)
(* TypeRelation (the strategy), in call order.                             *)
(***************************************************************************)
EXTENDS Integers, Sequences, FiniteSets, TLC

VARIABLES pc, op, a, b, cx, res

vars == <<pc, op, a, b, cx, res>>

(***************************************************************************)
(* RelateResult and the `?` operator                                       *)
(***************************************************************************)
Ok(v) == [tag |-> "Ok", val |-> v, log |-> <<>>]

Err(e) == [tag |-> "Err", val |-> e, log |-> <<>>]

Bug(m) == [tag |-> "Bug", val |-> [bug |-> m], log |-> <<>>]

WithLog(l, r) == [r EXCEPT !.log = l \o @]

\* The ? operator (relate.rs:150, 183, ...), `let v = r?; F(v)`: a failure (or
\* an abort) of r is returned at once.
Bind(r, F(_)) == IF r.tag = "Ok" THEN WithLog(r.log, F(r.val)) ELSE r

\* Collecting an iterator of results (mk_args_from_iter, mk_type_list_from_iter,
\* new_tup_from_iter, ...; relate.rs:108, 136, 183, 349, 573, 728): items i..n are produced lazily, in order, and the
\* first failure ends the iteration.
RECURSIVE try_collect(_, _, _)
try_collect(F(_), i, n) ==
    IF i > n THEN Ok(<<>>)
    ELSE Bind(F(i), LAMBDA v :
            Bind(try_collect(F, i + 1, n), LAMBDA vs : Ok(<<v>> \o vs)))

Min(x, y) == IF x <= y THEN x ELSE y

expected_found(x, y) == [expected |-> x, found |-> y]

(***************************************************************************)
(* Variance and diagnostic info                                            *)
(***************************************************************************)
Variances == {"Covariant", "Contravariant", "Invariant", "Bivariant"}

DiagNone == [info |-> "None"]

DiagInvariant(ty, i) == [info |-> "Invariant", ty |-> ty, param_index |-> i]

\* Variance::xform, as the strategy composes the ambient variance with the
\* variance of the position it is asked to enter.
xform(v, w) ==
    CASE v = "Covariant" -> w
      [] v = "Contravariant" ->
            (CASE w = "Covariant" -> "Contravariant"
               [] w = "Contravariant" -> "Covariant"
               [] OTHER -> w)
      [] v = "Invariant" -> "Invariant"
      [] OTHER -> "Bivariant"

(***************************************************************************)
(* The values related                                                      *)
(***************************************************************************)
Region(n) == [rk |-> n]

TyBool == [kind |-> "Bool"]
TyChar == [kind |-> "Char"]
TyNever == [kind |-> "Never"]
TyStr == [kind |-> "Str"]
TyInt(w) == [kind |-> "Int", w |-> w]
TyUint(w) == [kind |-> "Uint", w |-> w]
TyFloat(w) == [kind |-> "Float", w |-> w]
TyParam(i, n) == [kind |-> "Param", index |-> i, name |-> n]
TyPlaceholder(p) == [kind |-> "Placeholder", id |-> p]
TyInfer(v) == [kind |-> "Infer", vid |-> v]
TyBound(v) == [kind |-> "Bound", var |-> v]
new_error(g) == [kind |-> "Error", guar |-> g]
new_adt(d, args) == [kind |-> "Adt", def |-> d, args |-> args]
new_foreign(d) == [kind |-> "Foreign", def |-> d]
new_dynamic(preds, r, repr) == [kind |-> "Dynamic", preds |-> preds, region |-> r, repr |-> repr]
new_closure_like(k, d, args) == [kind |-> k, def |-> d, args |-> args]
new_ptr(t, m) == [kind |-> "RawPtr", ty |-> t, mutbl |-> m]
new_ref(r, t, m) == [kind |-> "Ref", r |-> r, ty |-> t, mutbl |-> m]
new_array_with_const_len(t, sz) == [kind |-> "Array", t |-> t, sz |-> sz]
new_slice(t) == [kind |-> "Slice", t |-> t]
new_tup_from_iter(es) == [kind |-> "Tuple", elems |-> es]
new_fn_def(d, args) == [kind |-> "FnDef", def |-> d, args |-> args]
new_fn_ptr(sig) == [kind |-> "FnPtr", sig |-> sig]
new_alias(k, data) == [kind |-> "Alias", akind |-> k, data |-> data]
new_pat(t, p) == [kind |-> "Pat", ty |-> t, pat |-> p]

PrimKinds == {"Never", "Char", "Bool", "Int", "Uint", "Float", "Str"}

CtParam(i, n) == [ckind |-> "Param", index |-> i, name |-> n]
CtPlaceholder(p) == [ckind |-> "Placeholder", id |-> p]
CtValue(t, v) == [ckind |-> "Value", ty |-> t, val |-> v]
CtInfer(v) == [ckind |-> "Infer", vid |-> v]
CtBound(v) == [ckind |-> "Bound", var |-> v]
CtError(g) == [ckind |-> "Error", guar |-> g]
new_unevaluated(d, args) == [ckind |-> "Unevaluated", def |-> d, args |-> args]
new_expr(k, args) == [ckind |-> "Expr", ekind |-> k, args |-> args]

ArgLifetime(r) == [gk |-> "Lifetime", v |-> r]
ArgType(t) == [gk |-> "Type", v |-> t]
ArgConst(c) == [gk |-> "Const", v |-> c]

TermTy(t) == [tk |-> "Ty", v |-> t]
TermConst(c) == [tk |-> "Const", v |-> c]

FnSig(io, cv, sf, ab) ==
    [inputs_and_output |-> io, c_variadic |-> cv, safety |-> sf, abi |-> ab]

AliasData(d, args) == [def_id |-> d, args |-> args]

TraitRef(d, args) == [def_id |-> d, args |-> args]

ExistentialProjection(d, args, term) == [def_id |-> d, args |-> args, term |-> term]

EpTrait(t) == [ep |-> "Trait", p |-> t]
EpProjection(p) == [ep |-> "Projection", p |-> p]
EpAutoTrait(d) == [ep |-> "AutoTrait", p |-> [def_id |-> d]]

Binder(bv, v) == [bound_vars |-> bv, value |-> v]

skip_binder(x) == x.value

rebind(x, v) == [x EXCEPT !.value = v]

NoneOpt == [some |-> FALSE]
SomeOpt(v) == [some |-> TRUE, v |-> v]

PatRange(s, e, inc) == [start |-> s, end |-> e, include_end |-> inc]

(***************************************************************************)
(* The type context (tcx): item metadata and feature flags.  The relation  *)
(* s carries them: s.debug_assertions is cfg!(debug_assertions) of the     *)
(* build, s.generic_const_exprs is tcx.features().generic_const_exprs.      *)
(***************************************************************************)
\* tcx.variances_of(def): the variance table of a generic item.
variances_of(d) ==
    CASE d = "Vec" -> <<"Covariant">>
      [] d = "Cell" -> <<"Invariant">>
      [] d = "Map" -> <<"Covariant", "Invariant">>
      [] d = "fnitem" -> <<"Bivariant">>
      [] d = "Opaque" -> <<"Covariant", "Invariant">>
      [] OTHER -> <<>>

\* AliasTy::kind / AliasTerm::kind: the alias kind is a function of the
\* defining item.
alias_kind(d) ==
    CASE d = "Opaque" -> "Opaque"
      [] d = "Weak" -> "Weak"
      [] d = "Inherent" -> "Inherent"
      [] OTHER -> "Projection"

alias_term_kind(d) ==
    CASE d = "Opaque" -> "OpaqueTy"
      [] d = "Weak" -> "WeakTy"
      [] d = "Inherent" -> "InherentTy"
      [] d = "ConstProj" -> "ProjectionConst"
      [] d = "AnonConst" -> "UnevaluatedConst"
      [] OTHER -> "ProjectionTy"

\* tcx.type_of(def).instantiate(tcx, args) of a nominal item: the item's type
\* at these arguments.
type_of_instantiate(d, args) ==
    IF d = "fnitem" THEN new_fn_def(d, args) ELSE new_adt(d, args)

\* tcx.type_of(def).instantiate(tcx, args) of a constant item: "TConst" is
\* declared with the type of its first parameter, every other constant with
\* usize.
const_type_of_instantiate(d, args) ==
    IF d = "TConst" /\ Len(args) >= 1 THEN args[1] ELSE ArgType(TyUint("usize"))

\* tcx.expand_abstract_consts(c): an unevaluated constant whose item has an
\* abstract body ("AbsConst": a sum of its arguments) is replaced by that
\* body; everything else is left as it is.
expand_abstract_consts(c) ==
    IF c.ckind = "Unevaluated" /\ c.def = "AbsConst"
    THEN new_expr([ek |-> "Binop", o |-> "Add"], c.args)
    ELSE c

\* Const::try_to_target_usize: the value of a concrete constant.
try_to_target_usize(c) ==
    IF c.ckind = "Value" THEN SomeOpt(c.val) ELSE NoneOpt

(***************************************************************************)
(* TypeRelation: the generic entry points                                  *)
(***************************************************************************)
Call(h, v, info, x, y) == [hook |-> h, variance |-> v, info |-> info, a |-> x, b |-> y]

RECURSIVE relate(_, _, _, _)

\* The strategy's relate_with_variance: enter a position of the given
\* variance (composed with the ambient one) and relate there.
relate_with_variance(s, variance, info, sort, x, y) ==
    WithLog(<<Call("relate_with_variance", variance, info, x, y)>>,
            relate([s EXCEPT !.ambient = xform(@, variance)], sort, x, y))

relate_args_invariantly(s, a_arg, b_arg) ==
    try_collect(LAMBDA i : relate_with_variance(s, "Invariant", DiagNone, "GenericArg",
                                                a_arg[i], b_arg[i]),
                1, Min(Len(a_arg), Len(b_arg)))

\* The iterator of relate_args_with_variances from position i on; cached is
\* cached_ty (NoneOpt until the first fetch).
RECURSIVE relate_args_with_variances_from(_, _, _, _, _, _, _, _)
relate_args_with_variances_from(s, ty_def_id, variances, a_arg, b_arg, fetch_ty_for_diag, i, cached) ==
    IF i > Min(Len(a_arg), Len(b_arg)) THEN Ok(<<>>)
    ELSE IF i > Len(variances) THEN Bug("index out of bounds")
    ELSE LET variance == variances[i]
             fetch == variance = "Invariant" /\ fetch_ty_for_diag
             ty == IF cached.some THEN cached.v ELSE type_of_instantiate(ty_def_id, a_arg)
             fetched == IF fetch /\ ~cached.some
                        THEN <<Call("type_of", "-", DiagNone, ty_def_id, a_arg)>>
                        ELSE <<>>
             variance_info == IF fetch THEN DiagInvariant(ty, i - 1) ELSE DiagNone
             cached2 == IF fetch THEN SomeOpt(ty) ELSE cached
         IN  WithLog(fetched,
               Bind(relate_with_variance(s, variance, variance_info, "GenericArg",
                                         a_arg[i], b_arg[i]),
                    LAMBDA v :
                      Bind(relate_args_with_variances_from(s, ty_def_id, variances, a_arg,
                                                           b_arg, fetch_ty_for_diag, i + 1, cached2),
                           LAMBDA vs : Ok(<<v>> \o vs))))

\* relate_args_with_variances with the type fetched whatever fetch_ty_for_diag is.
relate_args_with_variances_fetching(s, ty_def_id, variances, a_arg, b_arg, fetch_ty_for_diag) ==
    relate_args_with_variances_from(s, ty_def_id, variances, a_arg, b_arg, TRUE, 1, NoneOpt)

relate_args_with_variances(s, ty_def_id, variances, a_arg, b_arg, fetch_ty_for_diag) ==
    relate_args_with_variances_from(s, ty_def_id, variances, a_arg, b_arg,
                                    fetch_ty_for_diag, 1, NoneOpt)

relate_item_args(s, item_def_id, a_arg, b_arg) ==
    relate_args_with_variances(s, item_def_id, variances_of(item_def_id), a_arg, b_arg, TRUE)

(***************************************************************************)
(* Relate impls                                                            *)
(***************************************************************************)
inputs(sig) == SubSeq(sig.inputs_and_output, 1, Len(sig.inputs_and_output) - 1)

output(sig) == sig.inputs_and_output[Len(sig.inputs_and_output)]

\* The positional re-tagging of FnSig::relate (i counts from 0).
FnSig_retag(r, i) ==
    IF r.tag # "Err" THEN r
    ELSE IF r.val.err \in {"Sorts", "ArgumentSorts"}
         THEN [r EXCEPT !.val = [err |-> "ArgumentSorts", ef |-> r.val.ef, i |-> i]]
    ELSE IF r.val.err \in {"Mutability", "ArgumentMutability"}
         THEN [r EXCEPT !.val = [err |-> "ArgumentMutability", i |-> i]]
    ELSE r

\* FnSig_relate with the parameters related like the return type.
FnSig_relate_params_plain(s, x, y) ==
    IF x.c_variadic # y.c_variadic
    THEN Err([err |-> "VariadicMismatch", ef |-> expected_found(x.c_variadic, y.c_variadic)])
    ELSE Bind(relate(s, "Safety", x.safety, y.safety), LAMBDA safety :
         Bind(relate(s, "Abi", x.abi, y.abi), LAMBDA abi :
           IF Len(inputs(x)) # Len(inputs(y))
           THEN Err([err |-> "ArgCount"])
           ELSE LET n == Len(inputs(x))
                    item(i) ==
                      FnSig_retag(relate(s, "Ty", x.inputs_and_output[i], y.inputs_and_output[i]), i - 1)
                IN  Bind(try_collect(item, 1, n + 1), LAMBDA io :
                      Ok(FnSig(io, x.c_variadic, safety, abi)))))

\* FnSig_relate with the positional re-tagging applied to the parameters only.
FnSig_relate_return_untagged(s, x, y) ==
    IF x.c_variadic # y.c_variadic
    THEN Err([err |-> "VariadicMismatch", ef |-> expected_found(x.c_variadic, y.c_variadic)])
    ELSE Bind(relate(s, "Safety", x.safety, y.safety), LAMBDA safety :
         Bind(relate(s, "Abi", x.abi, y.abi), LAMBDA abi :
           IF Len(inputs(x)) # Len(inputs(y))
           THEN Err([err |-> "ArgCount"])
           ELSE LET n == Len(inputs(x))
                    item(i) ==
                      IF i = n + 1
                      THEN relate(s, "Ty", output(x), output(y))
                      ELSE FnSig_retag(
                             relate_with_variance(s, "Contravariant", DiagNone, "Ty",
                                                  inputs(x)[i], inputs(y)[i]),
                             i - 1)
                IN  Bind(try_collect(item, 1, n + 1), LAMBDA io :
                      Ok(FnSig(io, x.c_variadic, safety, abi)))))

\* FnSig_relate with the count of the parameters compared before the safety.
FnSig_relate_count_first(s, x, y) ==
    IF x.c_variadic # y.c_variadic
    THEN Err([err |-> "VariadicMismatch", ef |-> expected_found(x.c_variadic, y.c_variadic)])
    ELSE IF Len(inputs(x)) # Len(inputs(y))
    THEN Err([err |-> "ArgCount"])
    ELSE Bind(relate(s, "Safety", x.safety, y.safety), LAMBDA safety :
         Bind(relate(s, "Abi", x.abi, y.abi), LAMBDA abi :
           LET n == Len(inputs(x))
               item(i) ==
                 FnSig_retag(
                   IF i = n + 1
                   THEN relate(s, "Ty", output(x), output(y))
                   ELSE relate_with_variance(s, "Contravariant", DiagNone, "Ty",
                                             inputs(x)[i], inputs(y)[i]),
                   i - 1)
           IN  Bind(try_collect(item, 1, n + 1), LAMBDA io :
                 Ok(FnSig(io, x.c_variadic, safety, abi)))))

FnSig_relate(s, x, y) ==
    IF x.c_variadic # y.c_variadic
    THEN Err([err |-> "VariadicMismatch", ef |-> expected_found(x.c_variadic, y.c_variadic)])
    ELSE Bind(relate(s, "Safety", x.safety, y.safety), LAMBDA safety :
         Bind(relate(s, "Abi", x.abi, y.abi), LAMBDA abi :
           IF Len(inputs(x)) # Len(inputs(y))
           THEN Err([err |-> "ArgCount"])
           ELSE LET n == Len(inputs(x))
                    item(i) ==
                      FnSig_retag(
                        IF i = n + 1
                        THEN relate(s, "Ty", output(x), output(y))
                        ELSE relate_with_variance(s, "Contravariant", DiagNone, "Ty",
                                                  inputs(x)[i], inputs(y)[i]),
                        i - 1)
                IN  Bind(try_collect(item, 1, n + 1), LAMBDA io :
                      Ok(FnSig(io, x.c_variadic, safety, abi)))))

BoundConstness_relate(s, x, y) ==
    IF x # y THEN Err([err |-> "ConstnessMismatch", ef |-> expected_found(x, y)]) ELSE Ok(x)

Safety_relate(s, x, y) ==
    IF x # y THEN Err([err |-> "SafetyMismatch", ef |-> expected_found(x, y)]) ELSE Ok(x)

Abi_relate(s, x, y) ==
    IF x = y THEN Ok(x) ELSE Err([err |-> "AbiMismatch", ef |-> expected_found(x, y)])

\* AliasTy_relate with the type of an opaque item fetched for diagnostics.
AliasTy_relate_fetching(s, x, y) ==
    IF x.def_id # y.def_id
    THEN Err([err |-> "ProjectionMismatched", ef |-> expected_found(x.def_id, y.def_id)])
    ELSE Bind(IF alias_kind(x.def_id) = "Opaque"
              THEN relate_args_with_variances(s, x.def_id, variances_of(x.def_id),
                                              x.args, y.args, TRUE)
              ELSE relate_args_invariantly(s, x.args, y.args),
              LAMBDA args : Ok(AliasData(x.def_id, args)))

AliasTy_relate(s, x, y) ==
    IF x.def_id # y.def_id
    THEN Err([err |-> "ProjectionMismatched", ef |-> expected_found(x.def_id, y.def_id)])
    ELSE Bind(IF alias_kind(x.def_id) = "Opaque"
              THEN relate_args_with_variances(s, x.def_id, variances_of(x.def_id),
                                              x.args, y.args, FALSE)
              ELSE relate_args_invariantly(s, x.args, y.args),
              LAMBDA args : Ok(AliasData(x.def_id, args)))

AliasTerm_relate(s, x, y) ==
    IF x.def_id # y.def_id
    THEN Err([err |-> "ProjectionMismatched", ef |-> expected_found(x.def_id, y.def_id)])
    ELSE Bind(IF alias_term_kind(x.def_id) = "OpaqueTy"
              THEN relate_args_with_variances(s, x.def_id, variances_of(x.def_id),
                                              x.args, y.args, FALSE)
              ELSE relate_args_invariantly(s, x.args, y.args),
              LAMBDA args : Ok(AliasData(x.def_id, args)))

ExistentialProjection_relate(s, x, y) ==
    IF x.def_id # y.def_id
    THEN Err([err |-> "ProjectionMismatched", ef |-> expected_found(x.def_id, y.def_id)])
    ELSE Bind(relate_with_variance(s, "Invariant", DiagNone, "Term", x.term, y.term),
              LAMBDA term :
         Bind(relate_with_variance(s, "Invariant", DiagNone, "GenericArgsRef", x.args, y.args),
              LAMBDA args : Ok(ExistentialProjection(x.def_id, args, term))))

\* TraitRef_relate without the comparison of the traits.
TraitRef_relate_any_trait(s, x, y) ==
    Bind(relate_args_invariantly(s, x.args, y.args),
         LAMBDA args : Ok(TraitRef(x.def_id, args)))

TraitRef_relate(s, x, y) ==
    IF x.def_id # y.def_id
    THEN Err([err |-> "Traits", ef |-> expected_found(x.def_id, y.def_id)])
    ELSE Bind(relate_args_invariantly(s, x.args, y.args),
              LAMBDA args : Ok(TraitRef(x.def_id, args)))

ExistentialTraitRef_relate(s, x, y) ==
    IF x.def_id # y.def_id
    THEN Err([err |-> "Traits", ef |-> expected_found(x.def_id, y.def_id)])
    ELSE Bind(relate_args_invariantly(s, x.args, y.args),
              LAMBDA args : Ok(TraitRef(x.def_id, args)))

\* CoroutineWitness_relate with the elements related in an invariant position.
CoroutineWitness_relate_invariantly(s, x, y) ==
    IF Len(x) # Len(y) THEN Bug("assertion failed: a.0.len() == b.0.len()")
    ELSE try_collect(LAMBDA i : relate_with_variance(s, "Invariant", DiagNone, "Ty", x[i], y[i]),
                     1, Len(x))

\* A CoroutineWitness is the list of its types.
CoroutineWitness_relate(s, x, y) ==
    IF Len(x) # Len(y) THEN Bug("assertion failed: a.0.len() == b.0.len()")
    ELSE try_collect(LAMBDA i : relate(s, "Ty", x[i], y[i]), 1, Len(x))

ImplSubject_relate(s, x, y) ==
    IF x.subject = "Trait" /\ y.subject = "Trait"
    THEN Bind(TraitRef_relate(s, x.v, y.v), LAMBDA t : Ok([subject |-> "Trait", v |-> t]))
    ELSE IF x.subject = "Inherent" /\ y.subject = "Inherent"
    THEN Bind(relate(s, "Ty", x.v, y.v), LAMBDA t : Ok([subject |-> "Inherent", v |-> t]))
    ELSE Bug("can not relate TraitRef and Ty")

relate_opt_const(s, x, y) ==
    IF ~x.some /\ ~y.some THEN Ok(NoneOpt)
    ELSE IF x.some /\ y.some
    THEN Bind(relate(s, "Const", x.v, y.v), LAMBDA c : Ok(SomeOpt(c)))
    ELSE Err([err |-> "Mismatch"])

Pattern_relate(s, x, y) ==
    Bind(relate_opt_const(s, x.start, y.start), LAMBDA start :
    Bind(relate_opt_const(s, x.end, y.end), LAMBDA end :
      IF x.include_end # y.include_end THEN Bug("not yet implemented")
      ELSE Ok(PatRange(start, end, x.include_end))))

(***************************************************************************)
(* structurally_relate_tys: one operator per arm of the match, then the    *)
(* match itself, its arms in source order                                  *)
(***************************************************************************)
Sorts(x, y) == [err |-> "Sorts", ef |-> expected_found(x, y)]

\* (&ty::Error(guar), _) | (_, &ty::Error(guar)): guar is the first side's
\* when the first side is the error.
\* A variant that takes the arm only when both sides are error markers.
tys_arm_Error_both_sides(x, y) ==
    IF x.kind = "Error" /\ y.kind = "Error" THEN Ok(new_error(x.guar)) ELSE Err(Sorts(x, y))

tys_arm_Error(x, y) ==
    IF x.kind = "Error" THEN Ok(new_error(x.guar)) ELSE Ok(new_error(y.guar))

tys_arm_Param(s, x, y) ==
    IF s.debug_assertions /\ x.name # y.name
    THEN Bug("param types with same index differ in name")
    ELSE Ok(x)

tys_arm_Adt(s, x, y) ==
    Bind(WithLog(<<Call("relate_item_args", s.ambient, DiagNone, x.args, y.args)>>,
                 relate_item_args(s, x.def, x.args, y.args)),
         LAMBDA args : Ok(new_adt(x.def, args)))

tys_arm_Dynamic(s, x, y) ==
    Bind(relate(s, "PolyExistentialPredicates", x.preds, y.preds), LAMBDA obj :
    Bind(relate(s, "Region", x.region, y.region), LAMBDA r :
      Ok(new_dynamic(obj, r, x.repr))))

\* Coroutine, CoroutineWitness, Closure, CoroutineClosure: the arguments are
\* related invariantly and the type is rebuilt with the kind and id of a.
tys_arm_ClosureLike(s, x, y) ==
    Bind(relate_args_invariantly(s, x.args, y.args),
         LAMBDA args : Ok(new_closure_like(x.kind, x.def, args)))

\* The variance and the diagnostic info of the pointee of a: a_mutbl decides.
ptr_variance(x) ==
    IF x.mutbl = "Not" THEN <<"Covariant", DiagNone>>
    ELSE <<"Invariant", DiagInvariant(x, 0)>>

\* A variant that relates the pointee covariantly whatever the mutability.
tys_arm_RawPtr_covariant(s, x, y) ==
    IF x.mutbl # y.mutbl THEN Err([err |-> "Mutability"])
    ELSE Bind(relate_with_variance(s, "Covariant", DiagNone, "Ty", x.ty, y.ty),
              LAMBDA ty : Ok(new_ptr(ty, x.mutbl)))

tys_arm_RawPtr(s, x, y) ==
    IF x.mutbl # y.mutbl THEN Err([err |-> "Mutability"])
    ELSE Bind(relate_with_variance(s, ptr_variance(x)[1], ptr_variance(x)[2], "Ty",
                                   x.ty, y.ty),
              LAMBDA ty : Ok(new_ptr(ty, x.mutbl)))

\* A variant that rebuilds the reference as a shared one.
tys_arm_Ref_shared(s, x, y) ==
    IF x.mutbl # y.mutbl THEN Err([err |-> "Mutability"])
    ELSE Bind(relate(s, "Region", x.r, y.r), LAMBDA r :
         Bind(relate_with_variance(s, ptr_variance(x)[1], ptr_variance(x)[2], "Ty",
                                   x.ty, y.ty),
              LAMBDA ty : Ok(new_ref(r, ty, "Not"))))

\* A variant that relates the pointees before the regions.
tys_arm_Ref_pointee_first(s, x, y) ==
    IF x.mutbl # y.mutbl THEN Err([err |-> "Mutability"])
    ELSE Bind(relate_with_variance(s, ptr_variance(x)[1], ptr_variance(x)[2], "Ty",
                                   x.ty, y.ty),
              LAMBDA ty :
         Bind(relate(s, "Region", x.r, y.r), LAMBDA r : Ok(new_ref(r, ty, x.mutbl))))

tys_arm_Ref(s, x, y) ==
    IF x.mutbl # y.mutbl THEN Err([err |-> "Mutability"])
    ELSE Bind(relate(s, "Region", x.r, y.r), LAMBDA r :
         Bind(relate_with_variance(s, ptr_variance(x)[1], ptr_variance(x)[2], "Ty",
                                   x.ty, y.ty),
              LAMBDA ty : Ok(new_ref(r, ty, x.mutbl))))

\* A variant without the special case for two concrete lengths.
tys_arm_Array_plain(s, x, y) ==
    Bind(relate(s, "Ty", x.t, y.t), LAMBDA t :
    Bind(relate(s, "Const", x.sz, y.sz), LAMBDA sz :
      Ok(new_array_with_const_len(t, sz))))

tys_arm_Array(s, x, y) ==
    Bind(relate(s, "Ty", x.t, y.t), LAMBDA t :
      LET len == relate(s, "Const", x.sz, y.sz) IN
      IF len.tag = "Ok" THEN WithLog(len.log, Ok(new_array_with_const_len(t, len.val)))
      ELSE IF len.tag = "Bug" THEN len
      ELSE LET sz_a == try_to_target_usize(x.sz)
               sz_b == try_to_target_usize(y.sz)
           IN  IF sz_a.some /\ sz_b.some /\ sz_a.v # sz_b.v
               THEN WithLog(len.log,
                      Err([err |-> "FixedArraySize", ef |-> expected_found(sz_a.v, sz_b.v)]))
               ELSE len)

tys_arm_Slice(s, x, y) ==
    Bind(relate(s, "Ty", x.t, y.t), LAMBDA t : Ok(new_slice(t)))

\* A variant that reports every arity mismatch as TupleSize.
tys_arm_Tuple_size_only(s, x, y) ==
    IF Len(x.elems) = Len(y.elems)
    THEN Bind(try_collect(LAMBDA i : relate(s, "Ty", x.elems[i], y.elems[i]),
                          1, Len(x.elems)),
              LAMBDA es : Ok(new_tup_from_iter(es)))
    ELSE Err([err |-> "TupleSize", ef |-> expected_found(Len(x.elems), Len(y.elems))])

tys_arm_Tuple(s, x, y) ==
    IF Len(x.elems) = Len(y.elems)
    THEN Bind(try_collect(LAMBDA i : relate(s, "Ty", x.elems[i], y.elems[i]),
                          1, Len(x.elems)),
              LAMBDA es : Ok(new_tup_from_iter(es)))
    ELSE IF ~(Len(x.elems) = 0 \/ Len(y.elems) = 0)
    THEN Err([err |-> "TupleSize", ef |-> expected_found(Len(x.elems), Len(y.elems))])
    ELSE Err(Sorts(x, y))

tys_arm_FnDef(s, x, y) ==
    Bind(WithLog(<<Call("relate_item_args", s.ambient, DiagNone, x.args, y.args)>>,
                 relate_item_args(s, x.def, x.args, y.args)),
         LAMBDA args : Ok(new_fn_def(x.def, args)))

tys_arm_FnPtr(s, x, y) ==
    Bind(relate(s, "Binder:FnSig", x.sig, y.sig), LAMBDA fty : Ok(new_fn_ptr(fty)))

tys_arm_Alias(s, x, y) ==
    Bind(relate(s, "AliasTy", x.data, y.data), LAMBDA alias_ty :
      IF x.akind # y.akind THEN Bug("assertion failed: a_kind == b_kind")
      ELSE Ok(new_alias(x.akind, alias_ty)))

tys_arm_Pat(s, x, y) ==
    Bind(relate(s, "Ty", x.ty, y.ty), LAMBDA ty :
    Bind(relate(s, "Pattern", x.pat, y.pat), LAMBDA pat : Ok(new_pat(ty, pat))))

ClosureLikeKinds == {"Coroutine", "CoroutineWitness", "Closure", "CoroutineClosure"}

structurally_relate_tys(s, x, y) ==
    LET both(kd) == x.kind = kd /\ y.kind = kd IN
    IF x.kind = "Infer" \/ y.kind = "Infer"
    THEN Bug("var types encountered in structurally_relate_tys")
    ELSE IF x.kind = "Bound" \/ y.kind = "Bound"
    THEN Bug("bound types encountered in structurally_relate_tys")
    ELSE IF x.kind = "Error" \/ y.kind = "Error" THEN tys_arm_Error(x, y)
    ELSE IF x.kind \in PrimKinds /\ x = y THEN Ok(x)
    ELSE IF both("Param") /\ x.index = y.index THEN tys_arm_Param(s, x, y)
    ELSE IF both("Placeholder") /\ x.id = y.id THEN Ok(x)
    ELSE IF both("Adt") /\ x.def = y.def THEN tys_arm_Adt(s, x, y)
    ELSE IF both("Foreign") /\ x.def = y.def THEN Ok(new_foreign(x.def))
    ELSE IF both("Dynamic") /\ x.repr = y.repr THEN tys_arm_Dynamic(s, x, y)
    ELSE IF x.kind \in ClosureLikeKinds /\ y.kind = x.kind /\ x.def = y.def
    THEN tys_arm_ClosureLike(s, x, y)
    ELSE IF both("RawPtr") THEN tys_arm_RawPtr(s, x, y)
    ELSE IF both("Ref") THEN tys_arm_Ref(s, x, y)
    ELSE IF both("Array") THEN tys_arm_Array(s, x, y)
    ELSE IF both("Slice") THEN tys_arm_Slice(s, x, y)
    ELSE IF both("Tuple") THEN tys_arm_Tuple(s, x, y)
    ELSE IF both("FnDef") /\ x.def = y.def THEN tys_arm_FnDef(s, x, y)
    ELSE IF both("FnPtr") THEN tys_arm_FnPtr(s, x, y)
    ELSE IF both("Alias") THEN tys_arm_Alias(s, x, y)
    ELSE IF both("Pat") THEN tys_arm_Pat(s, x, y)
    ELSE Err(Sorts(x, y))

(***************************************************************************)
(* structurally_relate_consts                                              *)
(***************************************************************************)
ConstMismatch(x, y) == [err |-> "ConstMismatch", ef |-> expected_found(x, y)]

\* consts_arm_Error with a's side returned in both arms.
consts_arm_Error_left(x, y) == Ok(x)

\* (ConstKind::Error(_), _) => return Ok(a); (_, ConstKind::Error(_)) => return Ok(b)
consts_arm_Error(x, y) == IF x.ckind = "Error" THEN Ok(x) ELSE Ok(y)

\* debug_assert_eq!(a_p.name, b_p.name) of the Param arm: whether it fails.
consts_arm_Param_asserts(s, x, y) == s.debug_assertions /\ x.name # y.name

\* consts_arm_Unevaluated with the arguments related at the ambient variance.
consts_arm_Unevaluated_covariant(s, x, y) ==
    IF s.debug_assertions
       /\ const_type_of_instantiate(x.def, x.args) # const_type_of_instantiate(y.def, y.args)
    THEN Bug("assertion failed: a_ty == b_ty")
    ELSE Bind(relate_with_variance(s, "Covariant", DiagNone, "GenericArgsRef",
                                   x.args, y.args),
              LAMBDA args : Ok(new_unevaluated(x.def, args)))

\* The arm of two unevaluated constants of the same item (relate.rs:654-668).
consts_arm_Unevaluated(s, x, y) ==
    IF s.debug_assertions
       /\ const_type_of_instantiate(x.def, x.args) # const_type_of_instantiate(y.def, y.args)
    THEN Bug("assertion failed: a_ty == b_ty")
    ELSE Bind(relate_with_variance(s, "Invariant", DiagNone, "GenericArgsRef",
                                   x.args, y.args),
              LAMBDA args : Ok(new_unevaluated(x.def, args)))

\* The match on (ae.kind, be.kind) of two Expr constants.
expr_kinds_match(ae, be) ==
    \/ ae.ek = "Binop" /\ be.ek = "Binop" /\ ae.o = be.o
    \/ ae.ek = "UnOp" /\ be.ek = "UnOp" /\ ae.o = be.o
    \/ ae.ek = "FunctionCall" /\ be.ek = "FunctionCall"
    \/ ae.ek = "Cast" /\ be.ek = "Cast" /\ ae.o = be.o

consts_arm_Expr(s, x, y) ==
    IF ~expr_kinds_match(x.ekind, y.ekind) THEN Err(ConstMismatch(x, y))
    ELSE Bind(relate(s, "GenericArgsRef", x.args, y.args),
              LAMBDA args : Ok(new_expr(x.ekind, args)))

\* is_match, of the arms that do not return.
consts_is_match(x, y) ==
    LET both(kd) == x.ckind = kd /\ y.ckind = kd IN
    IF both("Param") /\ x.index = y.index THEN TRUE
    ELSE IF both("Placeholder") THEN x.id = y.id
    ELSE IF both("Value") THEN x.val = y.val
    ELSE FALSE

structurally_relate_consts(s, a0, b0) ==
    LET x == IF s.generic_const_exprs THEN expand_abstract_consts(a0) ELSE a0
        y == IF s.generic_const_exprs THEN expand_abstract_consts(b0) ELSE b0
        both(kd) == x.ckind = kd /\ y.ckind = kd
    IN
    IF x.ckind = "Infer" \/ y.ckind = "Infer"
    THEN Bug("var types encountered in structurally_relate_consts")
    ELSE IF x.ckind = "Error" \/ y.ckind = "Error" THEN consts_arm_Error(x, y)
    ELSE IF both("Param") /\ x.index = y.index /\ consts_arm_Param_asserts(s, x, y)
    THEN Bug("param types with same index differ in name")
    ELSE IF both("Unevaluated") /\ x.def = y.def THEN consts_arm_Unevaluated(s, x, y)
    ELSE IF both("Expr") THEN consts_arm_Expr(s, x, y)
    ELSE IF consts_is_match(x, y) THEN Ok(x)
    ELSE Err(ConstMismatch(x, y))

(***************************************************************************)
(* The existential predicates of a trait object                            *)
(***************************************************************************)
\* The predicates (binders skipped) in the order of stable_cmp, which is
\* total and does not look at binders: first the trait, then the
\* projections, then the auto traits, each group in its fixed order.
PredOrder ==
    << EpTrait(TraitRef("Tr", <<ArgType(TyBool)>>)),
       EpTrait(TraitRef("Tr", <<ArgType(TyInt("i32"))>>)),
       EpProjection(ExistentialProjection("Item", <<>>, TermTy(TyBool))),
       EpProjection(ExistentialProjection("Item", <<>>, TermConst(CtValue("usize", 4)))),
       EpAutoTrait("Send"),
       EpAutoTrait("Sync") >>

stable_rank(p) == CHOOSE i \in 1..Len(PredOrder) : PredOrder[i] = p

\* a.skip_binder().stable_cmp(tcx, &b.skip_binder()) as "Less", "Equal", "Greater".
stable_cmp(p, q) ==
    IF stable_rank(skip_binder(p)) < stable_rank(skip_binder(q)) THEN "Less"
    ELSE IF stable_rank(skip_binder(p)) > stable_rank(skip_binder(q)) THEN "Greater"
    ELSE "Equal"

\* Insertion of p into a sorted list, after every entry that is not greater:
\* the step of a stable sort.
RECURSIVE sort_insert(_, _)
sort_insert(v, p) ==
    IF v = <<>> THEN <<p>>
    ELSE IF stable_cmp(v[Len(v)], p) = "Greater"
         THEN sort_insert(SubSeq(v, 1, Len(v) - 1), p) \o <<v[Len(v)]>>
         ELSE v \o <<p>>

\* Vec::sort_by with stable_cmp: a stable sort.
RECURSIVE sort_by(_)
sort_by(v) ==
    IF v = <<>> THEN <<>>
    ELSE sort_insert(sort_by(SubSeq(v, 1, Len(v) - 1)), v[Len(v)])

\* Vec::dedup: of each run of consecutive equal entries the first is kept.
RECURSIVE dedup(_)
dedup(v) ==
    IF Len(v) <= 1 THEN v
    ELSE LET d == dedup(SubSeq(v, 1, Len(v) - 1))
         IN  IF d[Len(d)] = v[Len(v)] THEN d ELSE d \o <<v[Len(v)]>>

ExistentialMismatch(x, y) == [err |-> "ExistentialMismatch", ef |-> expected_found(x, y)]

\* PolyExistentialPredicates_relate without the sort of a_v.
PolyExistentialPredicates_relate_unsorted(s, x, y) ==
    LET a_v == dedup(x)
        b_v == dedup(sort_by(y))
    IN  IF Len(a_v) # Len(b_v) THEN Err(ExistentialMismatch(x, y))
        ELSE try_collect(
               LAMBDA i :
                 LET ep_a == a_v[i]
                     ep_b == b_v[i]
                     pa == skip_binder(ep_a)
                     pb == skip_binder(ep_b)
                 IN  IF pa.ep = "Trait" /\ pb.ep = "Trait"
                     THEN Bind(relate(s, "Binder:ExistentialTraitRef",
                                      rebind(ep_a, pa.p), rebind(ep_b, pb.p)),
                               LAMBDA r : Ok(rebind(ep_a, EpTrait(skip_binder(r)))))
                     ELSE IF pa.ep = "Projection" /\ pb.ep = "Projection"
                     THEN Bind(relate(s, "Binder:ExistentialProjection",
                                      rebind(ep_a, pa.p), rebind(ep_b, pb.p)),
                               LAMBDA r : Ok(rebind(ep_a, EpProjection(skip_binder(r)))))
                     ELSE IF pa.ep = "AutoTrait" /\ pb.ep = "AutoTrait" /\ pa.p = pb.p
                     THEN Ok(rebind(ep_a, EpAutoTrait(pa.p.def_id)))
                     ELSE Err(ExistentialMismatch(x, y)),
               1, Len(a_v))

PolyExistentialPredicates_relate(s, x, y) ==
    LET a_v == dedup(sort_by(x))
        b_v == dedup(sort_by(y))
    IN  IF Len(a_v) # Len(b_v) THEN Err(ExistentialMismatch(x, y))
        ELSE try_collect(
               LAMBDA i :
                 LET ep_a == a_v[i]
                     ep_b == b_v[i]
                     pa == skip_binder(ep_a)
                     pb == skip_binder(ep_b)
                 IN  IF pa.ep = "Trait" /\ pb.ep = "Trait"
                     THEN Bind(relate(s, "Binder:ExistentialTraitRef",
                                      rebind(ep_a, pa.p), rebind(ep_b, pb.p)),
                               LAMBDA r : Ok(rebind(ep_a, EpTrait(skip_binder(r)))))
                     ELSE IF pa.ep = "Projection" /\ pb.ep = "Projection"
                     THEN Bind(relate(s, "Binder:ExistentialProjection",
                                      rebind(ep_a, pa.p), rebind(ep_b, pb.p)),
                               LAMBDA r : Ok(rebind(ep_a, EpProjection(skip_binder(r)))))
                     ELSE IF pa.ep = "AutoTrait" /\ pb.ep = "AutoTrait" /\ pa.p = pb.p
                     THEN Ok(rebind(ep_a, EpAutoTrait(pa.p.def_id)))
                     ELSE Err(ExistentialMismatch(x, y)),
               1, Len(a_v))

(***************************************************************************)
(* The remaining Relate impls                                              *)
(***************************************************************************)
GenericArgsRef_relate(s, x, y) == relate_args_invariantly(s, x, y)

\* GenericArg_relate with the mismatch of kinds reported as Term_relate reports it.
GenericArg_relate_as_Term(s, x, y) ==
    IF x.gk = "Lifetime" /\ y.gk = "Lifetime"
    THEN Bind(relate(s, "Region", x.v, y.v), LAMBDA r : Ok(ArgLifetime(r)))
    ELSE IF x.gk = "Type" /\ y.gk = "Type"
    THEN Bind(relate(s, "Ty", x.v, y.v), LAMBDA t : Ok(ArgType(t)))
    ELSE IF x.gk = "Const" /\ y.gk = "Const"
    THEN Bind(relate(s, "Const", x.v, y.v), LAMBDA c : Ok(ArgConst(c)))
    ELSE Err([err |-> "Mismatch"])

GenericArg_relate(s, x, y) ==
    IF x.gk = "Lifetime" /\ y.gk = "Lifetime"
    THEN Bind(relate(s, "Region", x.v, y.v), LAMBDA r : Ok(ArgLifetime(r)))
    ELSE IF x.gk = "Type" /\ y.gk = "Type"
    THEN Bind(relate(s, "Ty", x.v, y.v), LAMBDA t : Ok(ArgType(t)))
    ELSE IF x.gk = "Const" /\ y.gk = "Const"
    THEN Bind(relate(s, "Const", x.v, y.v), LAMBDA c : Ok(ArgConst(c)))
    ELSE Bug("impossible case reached: can't relate")

PredicatePolarity_relate(s, x, y) ==
    IF x # y THEN Err([err |-> "PolarityMismatch", ef |-> expected_found(x, y)]) ELSE Ok(x)

TraitPredicate_relate(s, x, y) ==
    Bind(relate(s, "TraitRef", x.trait_ref, y.trait_ref), LAMBDA t :
    Bind(relate(s, "PredicatePolarity", x.polarity, y.polarity), LAMBDA p :
      Ok([trait_ref |-> t, polarity |-> p])))

Term_relate(s, x, y) ==
    IF x.tk = "Ty" /\ y.tk = "Ty"
    THEN Bind(relate(s, "Ty", x.v, y.v), LAMBDA t : Ok(TermTy(t)))
    ELSE IF x.tk = "Const" /\ y.tk = "Const"
    THEN Bind(relate(s, "Const", x.v, y.v), LAMBDA c : Ok(TermConst(c)))
    ELSE Err([err |-> "Mismatch"])

(***************************************************************************)
(* The strategy: the hooks of a relation that recurses structurally.  A    *)
(* strict relation (s.strict) rejects unequal regions, a lenient one       *)
(* accepts every pair of regions.                                          *)
(***************************************************************************)
tys(s, x, y) ==
    WithLog(<<Call("tys", s.ambient, DiagNone, x, y)>>, structurally_relate_tys(s, x, y))

regions(s, x, y) ==
    WithLog(<<Call("regions", s.ambient, DiagNone, x, y)>>,
            IF x = y \/ ~s.strict THEN Ok(x) ELSE Err([err |-> "RegionsPlaceholderMismatch"]))

consts(s, x, y) ==
    WithLog(<<Call("consts", s.ambient, DiagNone, x, y)>>,
            IF x = y THEN Ok(x) ELSE structurally_relate_consts(s, x, y))

binders(s, sort, x, y) ==
    WithLog(<<Call("binders", s.ambient, DiagNone, x, y)>>,
            Bind(relate(s, sort, skip_binder(x), skip_binder(y)),
                 LAMBDA v : Ok(rebind(x, v))))

\* TypeRelation::relate: Relate::relate of the static type of the pair.
relate(s, sort, x, y) ==
    CASE sort = "Ty" -> tys(s, x, y)
      [] sort = "Region" -> regions(s, x, y)
      [] sort = "Const" -> consts(s, x, y)
      [] sort = "Binder:FnSig" -> binders(s, "FnSig", x, y)
      [] sort = "Binder:ExistentialTraitRef" -> binders(s, "ExistentialTraitRef", x, y)
      [] sort = "Binder:ExistentialProjection" -> binders(s, "ExistentialProjection", x, y)
      [] sort = "GenericArg" -> GenericArg_relate(s, x, y)
      [] sort = "GenericArgsRef" -> GenericArgsRef_relate(s, x, y)
      [] sort = "Term" -> Term_relate(s, x, y)
      [] sort = "FnSig" -> FnSig_relate(s, x, y)
      [] sort = "Safety" -> Safety_relate(s, x, y)
      [] sort = "Abi" -> Abi_relate(s, x, y)
      [] sort = "BoundConstness" -> BoundConstness_relate(s, x, y)
      [] sort = "AliasTy" -> AliasTy_relate(s, x, y)
      [] sort = "AliasTerm" -> AliasTerm_relate(s, x, y)
      [] sort = "ExistentialProjection" -> ExistentialProjection_relate(s, x, y)
      [] sort = "TraitRef" -> TraitRef_relate(s, x, y)
      [] sort = "ExistentialTraitRef" -> ExistentialTraitRef_relate(s, x, y)
      [] sort = "CoroutineWitness" -> CoroutineWitness_relate(s, x, y)
      [] sort = "ImplSubject" -> ImplSubject_relate(s, x, y)
      [] sort = "Pattern" -> Pattern_relate(s, x, y)
      [] sort = "PolyExistentialPredicates" -> PolyExistentialPredicates_relate(s, x, y)
      [] sort = "PredicatePolarity" -> PredicatePolarity_relate(s, x, y)
      [] sort = "TraitPredicate" -> TraitPredicate_relate(s, x, y)

(***************************************************************************)
(* The inputs: bounded sets of types, constants and relations              *)
(***************************************************************************)
MaxTupleLen == 3

I32 == TyInt("i32")

RegionA == Region("'a")

RegionB == Region("'b")

Usize(n) == CtValue("usize", n)

ConstN == CtParam(0, "N")

\* Every configuration of the relation and of the build.
Relations ==
    [ambient : Variances, strict : BOOLEAN, debug_assertions : BOOLEAN,
     generic_const_exprs : BOOLEAN]

SigPlain == Binder(<<>>, FnSig(<<I32, TyBool>>, FALSE, "Safe", "Rust"))

SigUnsafe == Binder(<<>>, FnSig(<<I32, TyBool>>, FALSE, "Unsafe", "Rust"))

Mutabilities == {"Not", "Mut"}

AutoSend == Binder(<<>>, EpAutoTrait("Send"))

AutoSync == Binder(<<>>, EpAutoTrait("Sync"))

\* Leaves: every primitive kind, parameters, placeholders and the three
\* markers (inference variable, bound variable, error).
TyLeaves ==
    { TyBool, TyChar, TyNever, TyStr, I32, TyInt("i64"), TyUint("u8"), TyFloat("f64"),
      TyParam(0, "T"), TyParam(1, "U"), TyParam(0, "X"),
      TyPlaceholder(0), TyPlaceholder(1),
      TyInfer(0), TyBound(0), new_error("E1"), new_error("E2"),
      new_foreign("Ext"), new_foreign("Ext2") }

\* One or two types of every composite kind.
TyComposites ==
    { new_adt("Vec", <<ArgType(I32)>>), new_adt("Vec", <<ArgType(TyBool)>>),
      new_adt("Cell", <<ArgType(I32)>>),
      new_adt("Map", <<ArgLifetime(RegionA), ArgConst(Usize(4))>>),
      new_adt("Map", <<ArgLifetime(RegionB), ArgConst(ConstN)>>),
      new_closure_like("Coroutine", "gen", <<ArgType(I32)>>), new_closure_like("Coroutine", "gen", <<ArgType(TyBool)>>),
      new_closure_like("CoroutineWitness", "gen", <<ArgLifetime(RegionA)>>),
      new_closure_like("CoroutineWitness", "gen", <<ArgLifetime(RegionB)>>),
      new_closure_like("Closure", "cl", <<ArgType(I32)>>), new_closure_like("Closure", "cl2", <<ArgType(I32)>>),
      new_closure_like("CoroutineClosure", "ccl", <<ArgType(I32)>>),
      new_closure_like("CoroutineClosure", "ccl", <<ArgType(TyInfer(0))>>),
      new_ptr(I32, "Mut"), new_ptr(I32, "Not"),
      new_ref(RegionA, I32, "Not"), new_ref(RegionB, TyBool, "Mut"),
      new_array_with_const_len(I32, Usize(4)), new_array_with_const_len(I32, CtBound(0)),
      new_slice(I32), new_slice(TyBound(0)),
      new_slice(new_alias("Opaque", AliasData("Opaque", <<ArgType(I32), ArgLifetime(RegionA)>>))),
      new_tup_from_iter(<<>>), new_tup_from_iter(<<I32>>),
      new_tup_from_iter(<<I32, TyInfer(0)>>),
      new_fn_def("fnitem", <<ArgType(I32)>>), new_fn_def("fnitem", <<ArgType(TyBool)>>),
      new_fn_ptr(SigPlain), new_fn_ptr(SigUnsafe),
      new_alias("Projection", AliasData("Assoc", <<ArgType(I32)>>)),
      new_alias("Opaque", AliasData("Opaque", <<ArgType(I32), ArgLifetime(RegionA)>>)),
      new_pat(I32, PatRange(SomeOpt(Usize(4)), NoneOpt, TRUE)),
      new_pat(I32, PatRange(SomeOpt(Usize(4)), NoneOpt, FALSE)),
      new_dynamic(<<AutoSend, AutoSync>>, RegionA, "Dyn"),
      new_dynamic(<<AutoSend, AutoSend>>, RegionA, "Dyn"),
      new_dynamic(<<AutoSend, AutoSync>>, RegionA, "DynStar"),
      new_ref(RegionA, new_dynamic(<<AutoSend, AutoSend>>, RegionA, "Dyn"), "Not") }

TyGeneral == TyLeaves \cup TyComposites

\* Raw pointers and references, one and two levels deep.
TyPointees ==
    { I32, TyBool, new_error("E1"), new_ptr(I32, "Mut"), new_ptr(I32, "Not"),
      new_ref(RegionA, I32, "Mut") }

TyPointers ==
    { new_ptr(t, m) : t \in TyPointees, m \in Mutabilities }
    \cup { new_ref(r, t, m) : r \in {RegionA, RegionB}, t \in TyPointees, m \in Mutabilities }

\* Tuples of up to MaxTupleLen elements.
TyElems == {I32, TyBool, new_ptr(I32, "Mut")}

RECURSIVE SeqsUpTo(_, _)
SeqsUpTo(S, n) ==
    IF n = 0 THEN {<<>>}
    ELSE LET shorter == SeqsUpTo(S, n - 1)
         IN  shorter \cup {Append(q, e) : q \in {q \in shorter : Len(q) = n - 1}, e \in S}

TyTuples == { new_tup_from_iter(es) : es \in SeqsUpTo(TyElems, MaxTupleLen) }

\* Arrays: lengths that are concrete, generic, unevaluated or markers.
ArrayLens ==
    { Usize(4), Usize(5), ConstN, CtParam(1, "M"), CtError("E1"), CtInfer(0),
      new_unevaluated("AnonConst", <<ArgType(I32)>>),
      new_unevaluated("AnonConst", <<ArgType(TyBool)>>) }

TyArrays == { new_array_with_const_len(t, sz) : t \in {I32, TyBool}, sz \in ArrayLens }

TyFamilies == {TyGeneral, TyPointers, TyTuples, TyArrays}

(***************************************************************************)
(* The state machine: a call is set up (pc = "call") with its two operands *)
(* and its relation, and then runs to its outcome (pc = "done").           *)
(***************************************************************************)
NoResult == [tag |-> "None", val |-> [none |-> TRUE], log |-> <<>>]

InitTys ==
    /\ pc = "call"
    /\ op = "structurally_relate_tys"
    /\ \E fam \in TyFamilies : a \in fam /\ b \in fam
    /\ cx \in Relations
    /\ res = NoResult

\* structurally_relate_tys(relation, a, b)
RelateTys ==
    /\ pc = "call"
    /\ op = "structurally_relate_tys"
    /\ res' = structurally_relate_tys(cx, a, b)
    /\ pc' = "done"
    /\ UNCHANGED <<op, a, b, cx>>

NextTys == RelateTys

SpecTys == InitTys /\ [][NextTys]_vars

(***************************************************************************)
(* Properties of structurally_relate_tys (checked under SpecTys)           *)
(***************************************************************************)
Range(q) == {q[i] : i \in DOMAIN q}

\* The kinds of the types that occur in t, t included, as far as relating t
\* descends into them (a dynamic type is not entered).
RECURSIVE ty_kinds(_)
ty_kinds(t) ==
    LET in_args(args) == UNION {ty_kinds(g.v) : g \in {g \in Range(args) : g.gk = "Type"}}
    IN  {t.kind} \cup
        (CASE t.kind \in {"RawPtr", "Ref", "Pat"} -> ty_kinds(t.ty)
           [] t.kind \in {"Array", "Slice"} -> ty_kinds(t.t)
           [] t.kind = "Tuple" -> UNION {ty_kinds(e) : e \in Range(t.elems)}
           [] t.kind \in {"Adt", "FnDef"} \cup ClosureLikeKinds -> in_args(t.args)
           [] t.kind = "FnPtr" ->
                UNION {ty_kinds(e) : e \in Range(skip_binder(t.sig).inputs_and_output)}
           [] t.kind = "Alias" -> in_args(t.data.args)
           [] OTHER -> {})

DoneTys == pc = "done" /\ op = "structurally_relate_tys"

\* C1 as stated: every non-alias, non-dynamic type a related with itself
\* succeeds, under every ambient variance, and returns a type equal to a.
C1_SelfRelateAnyType ==
    (DoneTys /\ a = b /\ a.kind \notin {"Alias", "Dynamic"})
        => (res.tag = "Ok" /\ res.val = a)

\* C1 (amended): every non-alias type a in which no inference variable, no
\* bound variable and no dynamic type occurs, related with itself, succeeds
\* under every ambient variance and returns a type equal to a.
C1_SelfRelate ==
    (DoneTys /\ a = b /\ a.kind # "Alias"
       /\ ty_kinds(a) \cap {"Infer", "Bound", "Dynamic"} = {})
        => (res.tag = "Ok" /\ res.val = a)

C1_Witness ==
    /\ DoneTys /\ a = b /\ a.kind = "Ref" /\ a.ty.kind = "RawPtr"
    /\ cx.ambient = "Bivariant" /\ cx.strict
    /\ res.tag = "Ok" /\ res.val = a /\ Len(res.log) >= 4

BothMutable(kd) ==
    /\ DoneTys /\ a.kind = kd /\ b.kind = kd
    /\ a.mutbl = "Mut" /\ b.mutbl = "Mut" /\ a.ty # b.ty

\* The relation of the pointees of two mutable pointers: on the invariant
\* path, with a as the diagnostic type.
PointeeOutcome == relate_with_variance(cx, "Invariant", DiagInvariant(a, 0), "Ty", a.ty, b.ty)

\* C2 as stated: two mutable raw pointers (or references) with different
\* pointees fail with the error of relating the pointees invariantly, and
\* that error is never TypeError::Mutability.
C2_NeverPlainMutability ==
    (BothMutable("RawPtr") \/ BothMutable("Ref"))
        => /\ res.tag = "Err"
           /\ PointeeOutcome.tag = "Err" /\ res.val = PointeeOutcome.val
           /\ res.val.err # "Mutability"

\* C2 (amended): for two mutable raw pointers with different pointees the
\* outcome is the outcome of relating the pointees under Invariant variance
\* (diagnostic info Invariant{ty: a, param_index: 0}): its error unchanged
\* (Mutability included, when the pointees are pointers of different
\* mutability), or a mutable pointer to its result when it succeeds.  For two
\* mutable references the regions are related first and a failure there is
\* the outcome; otherwise the same holds.
C2_PointeeDecides ==
    /\ BothMutable("RawPtr") =>
         /\ res.tag = PointeeOutcome.tag
         /\ res.log = PointeeOutcome.log
         /\ res.val = IF PointeeOutcome.tag = "Ok" THEN new_ptr(PointeeOutcome.val, "Mut")
                      ELSE PointeeOutcome.val
    /\ BothMutable("Ref") =>
         LET rg == regions(cx, a.r, b.r) IN
         IF rg.tag # "Ok" THEN res = rg
         ELSE /\ res.tag = PointeeOutcome.tag
              /\ res.log = rg.log \o PointeeOutcome.log
              /\ res.val = IF PointeeOutcome.tag = "Ok"
                           THEN new_ref(rg.val, PointeeOutcome.val, "Mut")
                           ELSE PointeeOutcome.val

C2_Witness ==
    /\ BothMutable("RawPtr") /\ a.ty.kind = "Int" /\ b.ty.kind = "Bool"
    /\ res.tag = "Err" /\ res.val = Sorts(a.ty, b.ty)

\* C3 as stated: an Error marker on either side yields success with an error
\* type whatever the kind of the other side is.
C3_ErrorAlwaysWins ==
    (DoneTys /\ (a.kind = "Error" \/ b.kind = "Error"))
        => (res.tag = "Ok" /\ res.val.kind = "Error")

\* C3 (amended): an Error marker on either side yields success with an error
\* type (of a's guarantee when a is the marker, else of b's), without any
\* call on the relation, whatever the kind of the other side is, except an
\* inference variable or a bound variable: those two arms come first and the
\* call aborts.
C3_ErrorAfterInferBound ==
    (DoneTys /\ (a.kind = "Error" \/ b.kind = "Error"))
        => IF {a.kind, b.kind} \cap {"Infer", "Bound"} # {}
           THEN res.tag = "Bug"
           ELSE res = Ok(new_error(IF a.kind = "Error" THEN a.guar ELSE b.guar))

C3_Witness ==
    /\ DoneTys /\ a.kind = "Tuple" /\ b.kind = "Error"
    /\ res.tag = "Ok" /\ res.val = b

\* The logs of F(1), ..., F(n), in order.
RECURSIVE ConcatLogs(_, _)
ConcatLogs(F(_), n) == IF n = 0 THEN <<>> ELSE ConcatLogs(F, n - 1) \o F(n).log

\* The least element of a non-empty set of numbers.
Least(S) == CHOOSE i \in S : \A j \in S : i <= j

BothTys(kd) == DoneTys /\ a.kind = kd /\ b.kind = kd

ElemOutcome(i) == relate(cx, "Ty", a.elems[i], b.elems[i])

\* C5: two tuples of equal arity are related element by element, in order, up
\* to the first failure, and the result is the tuple of the results; unequal
\* arity with both non-empty fails with TupleSize(len a, len b); unequal arity
\* with an empty tuple fails with Sorts(a, b).
C5_Tuples ==
    BothTys("Tuple") =>
      LET n == Len(a.elems)
          m == Len(b.elems)
          failing == {i \in 1..n : ElemOutcome(i).tag # "Ok"}
      IN  IF n = m
          THEN IF failing = {}
               THEN /\ res.tag = "Ok"
                    /\ res.val.kind = "Tuple" /\ Len(res.val.elems) = n
                    /\ \A i \in 1..n : res.val.elems[i] = ElemOutcome(i).val
                    /\ res.log = ConcatLogs(ElemOutcome, n)
               ELSE /\ res.tag = ElemOutcome(Least(failing)).tag
                    /\ res.val = ElemOutcome(Least(failing)).val
                    /\ res.log = ConcatLogs(ElemOutcome, Least(failing))
          ELSE IF n > 0 /\ m > 0
          THEN res = Err([err |-> "TupleSize", ef |-> expected_found(n, m)])
          ELSE res = Err(Sorts(a, b))

C5_Witness ==
    /\ BothTys("Tuple") /\ a.elems = <<I32, I32>> /\ b.elems = <<I32, I32, I32>>
    /\ res.tag = "Err" /\ res.val.err = "TupleSize"
    /\ res.val.ef = [expected |-> 2, found |-> 3]

ArrayElemOutcome == relate(cx, "Ty", a.t, b.t)

ArrayLenOutcome == relate(cx, "Const", a.sz, b.sz)

\* C6: of two arrays the element types are related first and then the lengths,
\* as constants.  When the lengths fail to relate, the error is
\* FixedArraySize(len a, len b) if both lengths are concrete values that
\* differ, and the error of the constant relation otherwise.
C6_Arrays ==
    BothTys("Array") =>
      IF ArrayElemOutcome.tag # "Ok" THEN res = ArrayElemOutcome
      ELSE /\ res.log = ArrayElemOutcome.log \o ArrayLenOutcome.log
           /\ res.tag = ArrayLenOutcome.tag
           /\ ArrayLenOutcome.tag = "Ok" =>
                res.val = new_array_with_const_len(ArrayElemOutcome.val, ArrayLenOutcome.val)
           /\ ArrayLenOutcome.tag = "Err" =>
                IF a.sz.ckind = "Value" /\ b.sz.ckind = "Value" /\ a.sz.val # b.sz.val
                THEN res.val = [err |-> "FixedArraySize",
                                ef |-> expected_found(a.sz.val, b.sz.val)]
                ELSE res.val = ArrayLenOutcome.val

C6_Witness ==
    /\ BothTys("Array") /\ a.sz = Usize(4) /\ b.sz = Usize(5) /\ a.t = b.t
    /\ res.tag = "Err" /\ res.val = [err |-> "FixedArraySize", ef |-> [expected |-> 4, found |-> 5]]

\* The generic length of C6: a parameter against a concrete length keeps the
\* error of the constant relation.
C6_GenericLength ==
    /\ BothTys("Array") /\ a.sz = ConstN /\ b.sz = Usize(5) /\ a.t = b.t
    /\ res.tag = "Err" /\ res.val = ConstMismatch(ConstN, Usize(5))

(***************************************************************************)
(* structurally_relate_consts as a state machine                           *)
(***************************************************************************)
\* Constants of every kind.  An item takes arguments of one shape: AnonConst
\* and TConst a type, LConst a lifetime, CConst a constant, PairConst a
\* constant and a type, AbsConst (an abstract sum) two constants.
ConstLeaves ==
    { Usize(4), Usize(5), ConstN, CtParam(0, "K"), CtParam(1, "M"),
      CtPlaceholder(0), CtPlaceholder(1), CtInfer(0), CtBound(0),
      CtError("E1"), CtError("E2") }

ConstUnevaluated ==
    { new_unevaluated("AnonConst", <<ArgType(t)>>) : t \in {I32, TyBool} }
    \cup { new_unevaluated("TConst", <<ArgType(t)>>) : t \in {I32, TyBool} }
    \cup { new_unevaluated("LConst", <<ArgLifetime(r)>>) : r \in {RegionA, RegionB} }
    \cup { new_unevaluated("CConst", <<ArgConst(c)>>) : c \in {Usize(4), Usize(5), CtInfer(0)} }
    \cup { new_unevaluated("PairConst", <<ArgConst(c), ArgType(t)>>) :
             c \in {Usize(4), Usize(5)}, t \in {I32, TyBool} }
    \cup { new_unevaluated("AbsConst", <<ArgConst(Usize(4)), ArgConst(c)>>) :
             c \in {Usize(4), Usize(5)} }

ConstExprs ==
    { new_expr([ek |-> "Binop", o |-> "Add"], <<ArgConst(Usize(4)), ArgConst(c)>>) :
        c \in {Usize(4), Usize(5)} }
    \cup { new_expr([ek |-> "Binop", o |-> "Sub"], <<ArgConst(Usize(4)), ArgConst(Usize(4))>>),
           new_expr([ek |-> "UnOp", o |-> "Neg"], <<ArgConst(Usize(4))>>),
           new_expr([ek |-> "FunctionCall", o |-> "-"], <<ArgConst(Usize(4))>>),
           new_expr([ek |-> "Cast", o |-> "As"], <<ArgConst(Usize(4)), ArgType(I32)>>),
           new_expr([ek |-> "Cast", o |-> "Use"], <<ArgConst(Usize(4)), ArgType(I32)>>) }

ConstGeneral == ConstLeaves \cup ConstUnevaluated \cup ConstExprs

InitConsts ==
    /\ pc = "call"
    /\ op = "structurally_relate_consts"
    /\ a \in ConstGeneral
    /\ b \in ConstGeneral
    /\ cx \in Relations
    /\ res = NoResult

\* structurally_relate_consts(relation, a, b)
RelateConsts ==
    /\ pc = "call"
    /\ op = "structurally_relate_consts"
    /\ res' = structurally_relate_consts(cx, a, b)
    /\ pc' = "done"
    /\ UNCHANGED <<op, a, b, cx>>

NextConsts == RelateConsts

SpecConsts == InitConsts /\ [][NextConsts]_vars

(***************************************************************************)
(* Properties of structurally_relate_consts (checked under SpecConsts)     *)
(***************************************************************************)
DoneConsts == pc = "done" /\ op = "structurally_relate_consts"

EitherConstError == a.ckind = "Error" \/ b.ckind = "Error"

ErrorSide == IF a.ckind = "Error" THEN a ELSE b

\* C4 as stated: when either constant is an Error marker the call returns Ok
\* with that side's constant (a if a is the marker, otherwise b), calls no hook
\* and produces no ConstMismatch, whatever the other side is.
C4_ErrorWhateverOtherSide ==
    DoneConsts /\ EitherConstError
        => res = [tag |-> "Ok", val |-> ErrorSide, log |-> <<>>]

\* C4, amended: when either constant is an Error marker and neither is an
\* inference variable, the call returns Ok with that side's constant
\* unchanged and calls no hook; when the other side is an inference variable
\* the call aborts instead.
C4_ErrorUnlessInfer ==
    DoneConsts /\ EitherConstError
        => IF a.ckind = "Infer" \/ b.ckind = "Infer"
           THEN res.tag = "Bug"
           ELSE res = [tag |-> "Ok", val |-> ErrorSide, log |-> <<>>]

\* The marker on the right of a constant that would otherwise be related
\* through a hook: b comes back, no hook is called.
C4_Witness ==
    /\ DoneConsts
    /\ b.ckind = "Error"
    /\ a.ckind = "Unevaluated"
    /\ res = [tag |-> "Ok", val |-> b, log |-> <<>>]

\* The two operands as the match sees them, after the expansion of abstract
\* constants.
SeenByMatch(c) == IF cx.generic_const_exprs THEN expand_abstract_consts(c) ELSE c

SameUnevaluated(x, y) ==
    x.ckind = "Unevaluated" /\ y.ckind = "Unevaluated" /\ x.def = y.def

\* The invariant relation of the two argument lists.
ArgsOutcome ==
    relate_with_variance(cx, "Invariant", DiagNone, "GenericArgsRef", a.args, b.args)

\* The outcome that follows the relation of the argument lists.
FollowsArgs ==
    /\ res.tag = ArgsOutcome.tag
    /\ res.log = ArgsOutcome.log
    /\ res.val = IF ArgsOutcome.tag = "Ok"
                 THEN new_unevaluated(a.def, ArgsOutcome.val)
                 ELSE ArgsOutcome.val

\* The debug-only assert_eq!(a_ty, b_ty) fails.
InstantiatedTypesDiffer ==
    /\ cx.debug_assertions
    /\ const_type_of_instantiate(a.def, a.args) # const_type_of_instantiate(b.def, b.args)

\* C9 as stated: two unevaluated constants with the same defining identity
\* succeed exactly when the invariant relation of their argument lists
\* succeeds, fail with its error otherwise, and on success the result is the
\* unevaluated constant of that identity with the related arguments.
C9_UnevaluatedFollowsArgs ==
    DoneConsts /\ SameUnevaluated(a, b) => FollowsArgs

\* C9, amended: the same, for two constants that are still unevaluated with
\* the same identity after the expansion of abstract constants, and unless the
\* build has debug assertions and the instantiated types of the two constants
\* differ: then the call aborts before the arguments are related.
C9_UnevaluatedFollowsArgsUnlessAsserted ==
    DoneConsts /\ SameUnevaluated(SeenByMatch(a), SeenByMatch(b))
        => IF InstantiatedTypesDiffer
           THEN res.tag = "Bug" /\ res.log = <<>>
           ELSE FollowsArgs

\* Differing argument lists that the invariant relation accepts: success, with
\* the unevaluated constant of a's identity.
C9_Witness ==
    /\ DoneConsts
    /\ SameUnevaluated(a, b)
    /\ a.args # b.args
    /\ res.tag = "Ok"
    /\ res.val = new_unevaluated(a.def, a.args)
    /\ Len(res.log) > 1

\* Differing argument lists that the invariant relation rejects.
C9_Rejected ==
    /\ DoneConsts
    /\ SameUnevaluated(a, b)
    /\ res.tag = "Err"
    /\ res.val = ArgsOutcome.val

\* The assertion fires.
C9_Asserted == DoneConsts /\ SameUnevaluated(a, b) /\ InstantiatedTypesDiffer

(***************************************************************************)
(* <ty::FnSig as Relate>::relate as a state machine                        *)
(***************************************************************************)
MaxParams == 2

\* Parameter and return types: a scalar and two pointers to it, so that a
\* pair of them relates, fails with Sorts or fails with Mutability.
SigTys == {I32, new_ptr(I32, "Mut"), new_ptr(I32, "Not")}

\* Signatures of up to MaxParams parameters (inputs_and_output is never
\* empty: the return type is its last element).
FnSigs ==
    { FnSig(io, cv, sf, ab) :
        io \in SeqsUpTo(SigTys, MaxParams + 1) \ {<<>>},
        cv \in BOOLEAN, sf \in {"Safe", "Unsafe"}, ab \in {"Rust", "C"} }

\* Relations for operands without regions and constants, which the other
\* settings do not affect: a covariant and a contravariant position.
PlainRelations ==
    { r \in Relations : /\ r.strict /\ ~r.debug_assertions /\ ~r.generic_const_exprs
                        /\ r.ambient \in {"Covariant", "Contravariant"} }

InitFnSig ==
    /\ pc = "call"
    /\ op = "FnSig::relate"
    /\ a \in FnSigs
    /\ b \in FnSigs
    /\ cx \in PlainRelations
    /\ res = NoResult

\* <ty::FnSig as Relate>::relate(relation, a, b)
RelateFnSig ==
    /\ pc = "call"
    /\ op = "FnSig::relate"
    /\ res' = FnSig_relate(cx, a, b)
    /\ pc' = "done"
    /\ UNCHANGED <<op, a, b, cx>>

NextFnSig == RelateFnSig

SpecFnSig == InitFnSig /\ [][NextFnSig]_vars

(***************************************************************************)
(* Properties of FnSig::relate (checked under SpecFnSig)                   *)
(***************************************************************************)
DoneFnSig == pc = "done" /\ op = "FnSig::relate"

\* The parameters that both signatures have.
SigCommonParams == Min(Len(inputs(a)), Len(inputs(b)))

\* The components of the two signatures in the order variadic flag, safety,
\* ABI, parameter count, parameters from the left, return type, each with the
\* outcome of relating it on its own.
SigComponents ==
    << IF a.c_variadic # b.c_variadic
       THEN Err([err |-> "VariadicMismatch",
                 ef |-> [expected |-> a.c_variadic, found |-> b.c_variadic]])
       ELSE Ok(a.c_variadic),
       IF a.safety # b.safety
       THEN Err([err |-> "SafetyMismatch", ef |-> [expected |-> a.safety, found |-> b.safety]])
       ELSE Ok(a.safety),
       IF a.abi # b.abi
       THEN Err([err |-> "AbiMismatch", ef |-> [expected |-> a.abi, found |-> b.abi]])
       ELSE Ok(a.abi),
       IF Len(inputs(a)) # Len(inputs(b)) THEN Err([err |-> "ArgCount"]) ELSE Ok(Len(inputs(a))) >>
    \o [ i \in 1..SigCommonParams |->
           FnSig_retag(relate_with_variance(cx, "Contravariant", DiagNone, "Ty",
                                            inputs(a)[i], inputs(b)[i]), i - 1) ]
    \o << FnSig_retag(relate(cx, "Ty", output(a), output(b)), SigCommonParams) >>

\* The logs of the first n outcomes of a sequence of outcomes, in order.
RECURSIVE LogsOf(_, _)
LogsOf(outcomes, n) == IF n = 0 THEN <<>> ELSE LogsOf(outcomes, n - 1) \o outcomes[n].log

\* C7: the relation of two signatures fails with the failure of the first
\* component that fails, in the order variadic flag, safety, ABI, parameter
\* count, parameters from the left, return type, and relates nothing after it
\* (the calls on the relation are those of the components up to that one);
\* differing variadic flags fail with VariadicMismatch of the two flags before
\* anything is related.
C7_FirstFailure ==
    DoneFnSig =>
      LET comps == SigComponents
          failing == {k \in 1..Len(comps) : comps[k].tag # "Ok"}
      IN  /\ IF failing = {}
             THEN /\ res.tag = "Ok"
                  /\ res.log = LogsOf(comps, Len(comps))
             ELSE /\ res.tag = comps[Least(failing)].tag
                  /\ res.val = comps[Least(failing)].val
                  /\ res.log = LogsOf(comps, Least(failing))
          /\ a.c_variadic # b.c_variadic
               => res = Err([err |-> "VariadicMismatch",
                             ef |-> [expected |-> a.c_variadic, found |-> b.c_variadic]])

\* Several components differ (safety, the parameter count and the first
\* parameter): the failure is that of the safety.
C7_Witness ==
    /\ DoneFnSig
    /\ a.c_variadic = b.c_variadic
    /\ a.safety # b.safety
    /\ a.abi = b.abi
    /\ Len(inputs(a)) = 1 /\ Len(inputs(b)) = 2
    /\ inputs(a)[1] # inputs(b)[1]
    /\ res = Err([err |-> "SafetyMismatch", ef |-> [expected |-> a.safety, found |-> b.safety]])

\* The first parameter relates and the second does not: the return types,
\* which differ too, are not looked at.
C7_StopsAtParameter ==
    /\ DoneFnSig
    /\ {k \in 1..Len(SigComponents) : SigComponents[k].tag # "Ok"} = {6, 7}
    /\ res.tag = "Err"
    /\ res.val.err \in {"ArgumentSorts", "ArgumentMutability"} /\ res.val.i = 1
    /\ Len(res.log) < Len(LogsOf(SigComponents, 7))

(***************************************************************************)
(* <&List<PolyExistentialPredicate> as Relate>::relate as a state machine  *)
(***************************************************************************)
MaxPreds == 3

\* The entries of the lists: a trait, one projection under two binders that
\* differ in the name of their bound region, and an auto trait.
PredEntries ==
    { Binder(<<>>, PredOrder[1]),
      Binder(<<"'x">>, PredOrder[3]),
      Binder(<<"'y">>, PredOrder[3]),
      AutoSend }

\* Lists of up to MaxPreds entries, in any order and with repetitions.
PredLists == SeqsUpTo(PredEntries, MaxPreds)

InitPreds ==
    /\ pc = "call"
    /\ op = "List<PolyExistentialPredicate>::relate"
    /\ a \in PredLists
    /\ b \in PredLists
    /\ cx \in PlainRelations
    /\ res = NoResult

\* <&List<PolyExistentialPredicate> as Relate>::relate(relation, a, b)
RelatePreds ==
    /\ pc = "call"
    /\ op = "List<PolyExistentialPredicate>::relate"
    /\ res' = PolyExistentialPredicates_relate(cx, a, b)
    /\ pc' = "done"
    /\ UNCHANGED <<op, a, b, cx>>

NextPreds == RelatePreds

SpecPreds == InitPreds /\ [][NextPreds]_vars

(***************************************************************************)
(* Properties of the relation of predicate lists (checked under SpecPreds) *)
(***************************************************************************)
DonePreds == pc = "done" /\ op = "List<PolyExistentialPredicate>::relate"

\* The permutations of a list.
Perms(l) ==
    { [i \in 1..Len(l) |-> l[q[i]]] :
        q \in {f \in [1..Len(l) -> 1..Len(l)] : \A i, j \in 1..Len(l) : f[i] = f[j] => i = j} }

\* Every permutation of a against every permutation of b has the outcome of
\* the call: the same success or failure and, on success, the same list.
PermutationsAgree ==
    LET perms_a == Perms(a)
        perms_b == Perms(b)
    IN  \A pa \in perms_a, pb \in perms_b :
            LET r == PolyExistentialPredicates_relate(cx, pa, pb)
            IN  /\ r.tag = res.tag
                /\ res.tag = "Ok" => r.val = res.val

\* Entries of a list that the ordering does not tell apart are equal.
OrderedStrictly(l) ==
    \A i, j \in 1..Len(l) : stable_cmp(l[i], l[j]) = "Equal" => l[i] = l[j]

\* C8 as stated: for any permutation of the list of a and any permutation of
\* the list of b the call has the same success or failure and, on success,
\* returns the same sorted and deduplicated list.
C8_OrderIndependent == DonePreds => PermutationsAgree

\* C8, amended: the same, for lists in which entries that the ordering does
\* not tell apart are equal (the ordering does not look at binders, the
\* deduplication does).
C8_OrderIndependentWithoutTies ==
    DonePreds /\ OrderedStrictly(a) /\ OrderedStrictly(b) => PermutationsAgree

\* Two lists of the same trait and auto trait, one of them out of order and
\* with a repetition: success, with the sorted list without repetition.
C8_Witness ==
    /\ DonePreds
    /\ OrderedStrictly(a) /\ OrderedStrictly(b)
    /\ a = <<AutoSend, Binder(<<>>, PredOrder[1]), AutoSend>>
    /\ b = <<Binder(<<>>, PredOrder[1]), AutoSend>>
    /\ res.tag = "Ok"
    /\ res.val = <<Binder(<<>>, PredOrder[1]), AutoSend>>

\* A projection under two binders: one arrangement keeps three entries and
\* fails against a list of two, another keeps two.
C8_Tie ==
    /\ DonePreds
    /\ ~OrderedStrictly(a)
    /\ Len(a) = 3 /\ Len(b) = 2
    /\ res.tag = "Err"
    /\ \E pa \in Perms(a) : PolyExistentialPredicates_relate(cx, pa, b).tag = "Ok"

(***************************************************************************)
(* <GenericArg as Relate>::relate and <Term as Relate>::relate as a state  *)
(* machine                                                                 *)
(***************************************************************************)
ArgTys == {I32, TyBool, TyInfer(0), new_error("E1")}

ArgConsts == {Usize(4), Usize(5), ConstN, CtInfer(0), CtError("E1")}

GenericArgs ==
    { ArgLifetime(r) : r \in {RegionA, RegionB} }
    \cup { ArgType(t) : t \in ArgTys }
    \cup { ArgConst(c) : c \in ArgConsts }

Terms == { TermTy(t) : t \in ArgTys } \cup { TermConst(c) : c \in ArgConsts }

InitArgs ==
    /\ pc = "call"
    /\ \/ op = "GenericArg::relate" /\ a \in GenericArgs /\ b \in GenericArgs
       \/ op = "Term::relate" /\ a \in Terms /\ b \in Terms
    /\ cx \in Relations
    /\ res = NoResult

\* <GenericArg as Relate>::relate(relation, a, b)
RelateGenericArg ==
    /\ pc = "call"
    /\ op = "GenericArg::relate"
    /\ res' = GenericArg_relate(cx, a, b)
    /\ pc' = "done"
    /\ UNCHANGED <<op, a, b, cx>>

\* <Term as Relate>::relate(relation, a, b)
RelateTerm ==
    /\ pc = "call"
    /\ op = "Term::relate"
    /\ res' = Term_relate(cx, a, b)
    /\ pc' = "done"
    /\ UNCHANGED <<op, a, b, cx>>

NextArgs == RelateGenericArg \/ RelateTerm

SpecArgs == InitArgs /\ [][NextArgs]_vars

(***************************************************************************)
(* Properties of the two relations (checked under SpecArgs)                *)
(***************************************************************************)
DoneGenericArg == pc = "done" /\ op = "GenericArg::relate"

DoneTerm == pc = "done" /\ op = "Term::relate"

\* C10: two generic arguments of different kinds (lifetime, type, constant)
\* abort the call, which returns no TypeError and calls no hook; two terms of
\* different kinds (type, constant) make the call return TypeError::Mismatch,
\* without an abort and without a call of a hook.
C10_KindMismatch ==
    /\ DoneGenericArg /\ a.gk # b.gk => res.tag = "Bug" /\ res.log = <<>>
    /\ DoneTerm /\ a.tk # b.tk => res = Err([err |-> "Mismatch"])

\* A lifetime against a type.
C10_Witness ==
    /\ DoneGenericArg
    /\ a.gk = "Lifetime" /\ b.gk = "Type"
    /\ res.tag = "Bug"

\* A type against a constant, as terms.
C10_TermWitness ==
    /\ DoneTerm
    /\ a.tk = "Ty" /\ b.tk = "Const"
    /\ res.tag = "Err" /\ res.val.err = "Mismatch"

(***************************************************************************)
(* <ty::TraitRef as Relate>::relate and <ty::ExistentialTraitRef as        *)
(* Relate>::relate as a state machine                                      *)
(***************************************************************************)
\* Trait references: Tr and Tr2 take a type and a lifetime, Tr3 a constant.
TraitRefs ==
    { TraitRef(d, <<ArgType(t), ArgLifetime(r)>>) :
        d \in {"Tr", "Tr2"}, t \in {I32, TyBool}, r \in {RegionA, RegionB} }
    \cup { TraitRef("Tr3", <<ArgConst(c)>>) : c \in {Usize(4), Usize(5), CtInfer(0)} }

InitTraits ==
    /\ pc = "call"
    /\ op \in {"TraitRef::relate", "ExistentialTraitRef::relate"}
    /\ a \in TraitRefs
    /\ b \in TraitRefs
    /\ cx \in Relations
    /\ res = NoResult

\* <ty::TraitRef as Relate>::relate(relation, a, b)
RelateTraitRef ==
    /\ pc = "call"
    /\ op = "TraitRef::relate"
    /\ res' = TraitRef_relate(cx, a, b)
    /\ pc' = "done"
    /\ UNCHANGED <<op, a, b, cx>>

\* <ty::ExistentialTraitRef as Relate>::relate(relation, a, b)
RelateExistentialTraitRef ==
    /\ pc = "call"
    /\ op = "ExistentialTraitRef::relate"
    /\ res' = ExistentialTraitRef_relate(cx, a, b)
    /\ pc' = "done"
    /\ UNCHANGED <<op, a, b, cx>>

NextTraits == RelateTraitRef \/ RelateExistentialTraitRef

SpecTraits == InitTraits /\ [][NextTraits]_vars

(***************************************************************************)
(* Properties of the relation of trait references (under SpecTraits)       *)
(***************************************************************************)
DoneTraits == pc = "done" /\ op \in {"TraitRef::relate", "ExistentialTraitRef::relate"}

\* The outcome of a sequence of relations made in order up to the first one
\* that does not succeed: that one's outcome, or the list of all the results.
FirstFailure(outs) ==
    LET failing == {i \in 1..Len(outs) : outs[i].tag # "Ok"}
    IN  IF failing = {}
        THEN [tag |-> "Ok", val |-> [i \in 1..Len(outs) |-> outs[i].val],
              log |-> LogsOf(outs, Len(outs))]
        ELSE [tag |-> outs[Least(failing)].tag, val |-> outs[Least(failing)].val,
              log |-> LogsOf(outs, Least(failing))]

\* The argument pairs of a and b, each related under Invariant variance with
\* the default diagnostic info.
InvariantArgs ==
    FirstFailure([i \in 1..Min(Len(a.args), Len(b.args)) |->
                    relate_with_variance(cx, "Invariant", DiagNone, "GenericArg",
                                         a.args[i], b.args[i])])

\* C11: two trait references (concrete or existential) of different traits
\* fail with Traits(a's trait, b's trait) and no argument is related; of the
\* same trait, their arguments are related invariantly, in order, and the
\* result is the reference to a's trait with the related arguments.
C11_TraitRefs ==
    DoneTraits =>
      IF a.def_id # b.def_id
      THEN res = [tag |-> "Err",
                  val |-> [err |-> "Traits",
                           ef |-> [expected |-> a.def_id, found |-> b.def_id]],
                  log |-> <<>>]
      ELSE LET args == InvariantArgs
           IN  /\ res.tag = args.tag
               /\ res.log = args.log
               /\ res.val = IF args.tag = "Ok"
                            THEN [def_id |-> a.def_id, args |-> args.val]
                            ELSE args.val

\* Different traits with argument lists that would relate.
C11_Witness ==
    /\ DoneTraits
    /\ a.def_id = "Tr" /\ b.def_id = "Tr2"
    /\ a.args = b.args
    /\ res.tag = "Err" /\ res.val.err = "Traits"
    /\ res.log = <<>>

\* The same trait, arguments that relate although they differ.
C11_SameTrait ==
    /\ DoneTraits
    /\ a.def_id = b.def_id /\ a.args # b.args
    /\ res.tag = "Ok" /\ res.val = a
    /\ Len(res.log) >= 4

(***************************************************************************)
(* <CoroutineWitness as Relate>::relate as a state machine                 *)
(***************************************************************************)
MaxWitnessTys == 2

\* The type lists of coroutine witnesses, of up to MaxWitnessTys types.
WitnessLists == SeqsUpTo(SigTys, MaxWitnessTys)

InitWitness ==
    /\ pc = "call"
    /\ op = "CoroutineWitness::relate"
    /\ a \in WitnessLists
    /\ b \in WitnessLists
    /\ cx \in Relations
    /\ res = NoResult

\* <CoroutineWitness as Relate>::relate(relation, a, b)
RelateWitness ==
    /\ pc = "call"
    /\ op = "CoroutineWitness::relate"
    /\ res' = CoroutineWitness_relate(cx, a, b)
    /\ pc' = "done"
    /\ UNCHANGED <<op, a, b, cx>>

NextWitness == RelateWitness

SpecWitness == InitWitness /\ [][NextWitness]_vars

(***************************************************************************)
(* Properties of the relation of coroutine witnesses (under SpecWitness)   *)
(***************************************************************************)
DoneWitness == pc = "done" /\ op = "CoroutineWitness::relate"

\* The calls of the type hook on a pair of elements of the two lists.
ElementCalls ==
    { i \in 1..Len(res.log) :
        /\ res.log[i].hook = "tys"
        /\ \E k \in 1..Len(a) : res.log[i].a = a[k] /\ res.log[i].b = b[k] }

\* C12 as stated: two lists of equal length are related element by element,
\* in order, and every pair of elements is handed to the relation under
\* Invariant variance, whatever the ambient variance is.
C12_ElementsInvariant ==
    DoneWitness /\ Len(a) = Len(b) =>
      /\ res.tag = FirstFailure([i \in 1..Len(a) |-> relate(cx, "Ty", a[i], b[i])]).tag
      /\ \A i \in ElementCalls : res.log[i].variance = "Invariant"

\* C12, amended: two lists of equal length are related element by element,
\* in order, up to the first failure, each pair by a plain relate: the pair
\* is handed to the type hook under the ambient variance, which is not
\* changed.
C12_ElementsAmbient ==
    DoneWitness /\ Len(a) = Len(b) =>
      /\ res = FirstFailure([i \in 1..Len(a) |-> relate(cx, "Ty", a[i], b[i])])
      /\ Len(a) >= 1 => res.log[1] = Call("tys", cx.ambient, DiagNone, a[1], b[1])

\* Two elements related in a covariant position: the hook sees Covariant.
C12_Witness ==
    /\ DoneWitness
    /\ Len(a) = 2 /\ Len(b) = 2
    /\ cx.ambient = "Covariant"
    /\ res.tag = "Ok"
    /\ res.log[1].hook = "tys" /\ res.log[1].variance = "Covariant"
    /\ \E i \in 2..Len(res.log) :
         res.log[i] = Call("tys", "Covariant", DiagNone, a[2], b[2])

(***************************************************************************)
(* FnSig::relate on signatures of equal shape whose parameter and return   *)
(* types are pointers and function pointers                                *)
(***************************************************************************)
MaxNestedParams == 1

PtrMut == new_ptr(I32, "Mut")

PtrNot == new_ptr(I32, "Not")

\* fn(p) -> r, safe or unsafe, as a function pointer type.
FnPtrOf(p, r, sf) == new_fn_ptr(Binder(<<>>, FnSig(<<p, r>>, FALSE, sf, "Rust")))

\* Two pointers and four function pointers: a pair of them relates, or fails
\* with Sorts, Mutability, ArgumentMutability (the inner parameters),
\* ArgumentSorts (the inner return types) or SafetyMismatch.
NestedTys ==
    { PtrMut, PtrNot,
      FnPtrOf(PtrMut, I32, "Safe"), FnPtrOf(PtrNot, I32, "Safe"),
      FnPtrOf(PtrMut, PtrMut, "Safe"), FnPtrOf(PtrMut, I32, "Unsafe") }

\* Signatures of 0 to MaxNestedParams parameters that agree in everything but
\* their types.
NestedSigs ==
    { FnSig(io, FALSE, "Safe", "Rust") :
        io \in SeqsUpTo(NestedTys, MaxNestedParams + 1) \ {<<>>} }

InitFnSigNested ==
    /\ pc = "call"
    /\ op = "FnSig::relate (types)"
    /\ a \in NestedSigs
    /\ b \in NestedSigs
    /\ Len(a.inputs_and_output) = Len(b.inputs_and_output)
    /\ cx \in PlainRelations
    /\ res = NoResult

\* <ty::FnSig as Relate>::relate(relation, a, b)
RelateFnSigNested ==
    /\ pc = "call"
    /\ op = "FnSig::relate (types)"
    /\ res' = FnSig_relate(cx, a, b)
    /\ pc' = "done"
    /\ UNCHANGED <<op, a, b, cx>>

NextFnSigNested == RelateFnSigNested

SpecFnSigNested == InitFnSigNested /\ [][NextFnSigNested]_vars

(***************************************************************************)
(* Properties of the positions of a signature (under SpecFnSigNested)      *)
(***************************************************************************)
DoneFnSigNested == pc = "done" /\ op = "FnSig::relate (types)"

\* The parameters, each related in a contravariant position, and then the
\* return type, related where the signature is.
SigPositions ==
    [ i \in 1..Len(inputs(a)) |->
        relate_with_variance(cx, "Contravariant", DiagNone, "Ty", inputs(a)[i], inputs(b)[i]) ]
    \o << relate(cx, "Ty", output(a), output(b)) >>

\* The error e as it surfaces from position i (counted from 0).
Positional(e, i) ==
    IF e.err \in {"Sorts", "ArgumentSorts"}
    THEN [err |-> "ArgumentSorts", ef |-> e.ef, i |-> i]
    ELSE IF e.err \in {"Mutability", "ArgumentMutability"}
    THEN [err |-> "ArgumentMutability", i |-> i]
    ELSE e

\* C13: every pair of parameters is related under Contravariant variance and
\* the pair of return types by a plain relate, under the ambient variance; a
\* failure of parameter i with Sorts or ArgumentSorts surfaces as
\* ArgumentSorts of the same pair of types and i, one with Mutability or
\* ArgumentMutability as ArgumentMutability(i), and any other error as it is.
C13_ParameterPositions ==
    DoneFnSigNested =>
      LET n == Len(inputs(a))
          outs == SigPositions
          failing == {k \in 1..n + 1 : outs[k].tag # "Ok"}
          last == IF failing = {} THEN n + 1 ELSE Least(failing)
      IN  /\ res.log = LogsOf(outs, last)
          /\ \A k \in 1..Min(last, n) :
               outs[k].log[1] = Call("relate_with_variance", "Contravariant", DiagNone,
                                     inputs(a)[k], inputs(b)[k])
          /\ last = n + 1 =>
               outs[n + 1].log[1] = Call("tys", cx.ambient, DiagNone, output(a), output(b))
          /\ failing # {} /\ last <= n =>
               /\ res.tag = "Err"
               /\ res.val = Positional(outs[last].val, last - 1)

\* The parameter fails with an error that carries a position of its own (the
\* return types of two function pointers): it surfaces with the position of
\* the parameter.
C13_Witness ==
    /\ DoneFnSigNested
    /\ Len(inputs(a)) = 1
    /\ SigPositions[1].tag = "Err"
    /\ SigPositions[1].val.err = "ArgumentSorts" /\ SigPositions[1].val.i = 1
    /\ SigPositions[1].log[1].variance = "Contravariant"
    /\ res.tag = "Err"
    /\ res.val = [err |-> "ArgumentSorts", ef |-> SigPositions[1].val.ef, i |-> 0]

\* A parameter fails with another error, which surfaces unchanged.
C13_PassedThrough ==
    /\ DoneFnSigNested
    /\ Len(inputs(a)) >= 1
    /\ res.tag = "Err" /\ res.val.err = "SafetyMismatch"
    /\ res.val = SigPositions[1].val

\* C17: when all the n parameters relate and the return types fail to, the
\* error of the return types surfaces with the position n: Sorts and
\* ArgumentSorts as ArgumentSorts of the same pair of types and n, Mutability
\* and ArgumentMutability as ArgumentMutability(n).
C17_ReturnPosition ==
    DoneFnSigNested =>
      LET n == Len(inputs(a))
          outs == SigPositions
      IN  (\A k \in 1..n : outs[k].tag = "Ok") /\ outs[n + 1].tag = "Err" =>
            /\ res.tag = "Err"
            /\ outs[n + 1].val.err \in {"Sorts", "ArgumentSorts"} =>
                 res.val = [err |-> "ArgumentSorts", ef |-> outs[n + 1].val.ef, i |-> n]
            /\ outs[n + 1].val.err \in {"Mutability", "ArgumentMutability"} =>
                 res.val = [err |-> "ArgumentMutability", i |-> n]

\* A parameter that relates and return types of different kinds.
C17_Witness ==
    /\ DoneFnSigNested
    /\ Len(inputs(a)) = 1
    /\ inputs(a) = inputs(b)
    /\ output(a) = PtrMut /\ output(b) = FnPtrOf(PtrMut, I32, "Safe")
    /\ res.tag = "Err"
    /\ res.val = [err |-> "ArgumentSorts",
                  ef |-> [expected |-> output(a), found |-> output(b)], i |-> 1]

\* Return types that differ in mutability.
C17_Mutability ==
    /\ DoneFnSigNested
    /\ Len(inputs(a)) = 1
    /\ output(a) = PtrMut /\ output(b) = PtrNot
    /\ res.tag = "Err"
    /\ res.val = [err |-> "ArgumentMutability", i |-> 1]

(***************************************************************************)
(* Raw pointers and references in structurally_relate_tys (under SpecTys)  *)
(***************************************************************************)
BothPointers == DoneTys /\ a.kind = b.kind /\ a.kind \in {"RawPtr", "Ref"}

\* The relation of the pointees of two pointers of the same mutability.
PointeeStep ==
    IF a.mutbl = "Mut"
    THEN relate_with_variance(cx, "Invariant",
                              [info |-> "Invariant", ty |-> a, param_index |-> 0],
                              "Ty", a.ty, b.ty)
    ELSE relate_with_variance(cx, "Covariant", [info |-> "None"], "Ty", a.ty, b.ty)

\* C14: raw pointers and references of different mutability fail with
\* Mutability before anything is related.  Otherwise the pointees are related
\* under Invariant variance with the diagnostic info Invariant{ty: a,
\* param_index: 0} when both are mutable, and under Covariant variance with no
\* diagnostic info when both are immutable; of two references the regions are
\* related first, and their failure is the outcome whatever the pointees are.
C14_PointersAndReferences ==
    BothPointers =>
      IF a.mutbl # b.mutbl
      THEN res = [tag |-> "Err", val |-> [err |-> "Mutability"], log |-> <<>>]
      ELSE LET steps == IF a.kind = "Ref"
                        THEN <<relate(cx, "Region", a.r, b.r), PointeeStep>>
                        ELSE <<PointeeStep>>
               outcome == FirstFailure(steps)
           IN  /\ res.tag = outcome.tag
               /\ res.log = outcome.log
               /\ res.val = IF outcome.tag # "Ok" THEN outcome.val
                            ELSE IF a.kind = "Ref"
                            THEN new_ref(outcome.val[1], outcome.val[2], a.mutbl)
                            ELSE new_ptr(outcome.val[1], a.mutbl)

\* Two references whose regions and whose pointees both fail to relate: the
\* failure of the regions is the outcome and the pointees are not related.
C14_Witness ==
    /\ BothPointers /\ a.kind = "Ref"
    /\ a.mutbl = b.mutbl
    /\ PointeeStep.tag = "Err"
    /\ res.tag = "Err" /\ res.val = [err |-> "RegionsPlaceholderMismatch"]
    /\ Len(res.log) = 1 /\ res.log[1].hook = "regions"

\* Differing mutability with pointees that differ too.
C14_MutabilityFirst ==
    /\ BothPointers /\ a.mutbl # b.mutbl /\ a.ty # b.ty
    /\ res = [tag |-> "Err", val |-> [err |-> "Mutability"], log |-> <<>>]

\* Two immutable raw pointers: the pointees are seen in a covariant position.
C14_Immutable ==
    /\ BothPointers /\ a.kind = "RawPtr" /\ a.mutbl = "Not" /\ b.mutbl = "Not"
    /\ res.tag = "Ok"
    /\ res.log[1] = Call("relate_with_variance", "Covariant", DiagNone, a.ty, b.ty)

(***************************************************************************)
(* relate_args_with_variances as a state machine.  op holds the arguments  *)
(* of the call other than the relation and the two lists.                  *)
(***************************************************************************)
MaxArgs == 3

\* Lists of exactly n elements of S.
SeqsOfLen(S, n) == {q \in SeqsUpTo(S, n) : Len(q) = n}

\* Type arguments: a pair of them relates or fails with Sorts.
TypeArgs == {ArgType(I32), ArgType(TyBool)}

InitArgsVar ==
    /\ pc = "call"
    /\ \E n \in 0..MaxArgs :
         /\ a \in SeqsOfLen(TypeArgs, n)
         /\ b \in SeqsOfLen(TypeArgs, n)
         /\ op \in [fn : {"relate_args_with_variances"}, ty_def_id : {"Item"},
                    variances : SeqsOfLen(Variances, n), fetch_ty_for_diag : BOOLEAN]
    /\ cx \in PlainRelations
    /\ res = NoResult

\* relate_args_with_variances(relation, ty_def_id, variances, a_arg, b_arg,
\* fetch_ty_for_diag)
RelateArgsVar ==
    /\ pc = "call"
    /\ op.fn = "relate_args_with_variances"
    /\ res' = relate_args_with_variances(cx, op.ty_def_id, op.variances, a, b,
                                         op.fetch_ty_for_diag)
    /\ pc' = "done"
    /\ UNCHANGED <<op, a, b, cx>>

NextArgsVar == RelateArgsVar

SpecArgsVar == InitArgsVar /\ [][NextArgsVar]_vars

(***************************************************************************)
(* Properties of relate_args_with_variances (under SpecArgsVar)            *)
(***************************************************************************)
DoneArgsVar == pc = "done" /\ op.fn = "relate_args_with_variances"

IsFetch(e) == e.hook = "type_of"

IsNoFetch(e) == e.hook # "type_of"

\* The diagnostic info of position i (counted from 1 here, from 0 in
\* param_index).
PositionInfo(i) ==
    IF op.variances[i] = "Invariant" /\ op.fetch_ty_for_diag
    THEN [info |-> "Invariant", ty |-> type_of_instantiate(op.ty_def_id, a),
          param_index |-> i - 1]
    ELSE [info |-> "None"]

\* C15: the positions of two lists of equal length are related in increasing
\* order, position i under variances[i], up to the first failure.  The
\* instantiated type of the item is fetched at most once, and only if
\* fetch_ty_for_diag is true and a position that is reached is Invariant;
\* every such position then carries it with its index as diagnostic info, and
\* every other position, and every position when fetch_ty_for_diag is false,
\* the default info.
C15_ArgsWithVariances ==
    DoneArgsVar =>
      LET outs == [i \in 1..Len(a) |->
                     relate_with_variance(cx, op.variances[i], PositionInfo(i),
                                          "GenericArg", a[i], b[i])]
          failing == {i \in 1..Len(a) : outs[i].tag # "Ok"}
          reached == IF failing = {} THEN Len(a) ELSE Least(failing)
          outcome == FirstFailure(outs)
          fetches == Len(SelectSeq(res.log, IsFetch))
      IN  /\ res.tag = outcome.tag
          /\ res.val = outcome.val
          /\ SelectSeq(res.log, IsNoFetch) = outcome.log
          /\ fetches = IF op.fetch_ty_for_diag
                          /\ \E i \in 1..reached : op.variances[i] = "Invariant"
                       THEN 1 ELSE 0

\* Two invariant positions are reached: one fetch, and both positions carry
\* the type with their own index.
C15_Witness ==
    /\ DoneArgsVar
    /\ op.fetch_ty_for_diag
    /\ op.variances = <<"Invariant", "Covariant", "Invariant">>
    /\ res.tag = "Ok"
    /\ Len(SelectSeq(res.log, IsFetch)) = 1
    /\ \E i, j \in 1..Len(res.log) :
         /\ res.log[i].hook = "relate_with_variance"
         /\ res.log[i].info = [info |-> "Invariant",
                               ty |-> type_of_instantiate("Item", a), param_index |-> 0]
         /\ res.log[j].hook = "relate_with_variance"
         /\ res.log[j].info = [info |-> "Invariant",
                               ty |-> type_of_instantiate("Item", a), param_index |-> 2]

\* The only invariant position lies behind the first failure: no fetch.
C15_NotReached ==
    /\ DoneArgsVar
    /\ op.fetch_ty_for_diag
    /\ op.variances = <<"Covariant", "Invariant">>
    /\ res.tag = "Err"
    /\ res.log = <<Call("relate_with_variance", "Covariant", DiagNone, a[1], b[1]),
                   Call("tys", cx.ambient, DiagNone, a[1].v, b[1].v)>>

(***************************************************************************)
(* <ty::AliasTy as Relate>::relate and <ty::AliasTerm as Relate>::relate   *)
(* as a state machine                                                      *)
(***************************************************************************)
\* The arguments of an alias: a type and a lifetime.
AliasArgs ==
    { <<ArgType(t), ArgLifetime(r)>> : t \in {I32, TyBool}, r \in {RegionA, RegionB} }

\* Alias types: an opaque type, an associated type, a weak and an inherent
\* alias.
AliasTys == { AliasData(d, args) : d \in {"Opaque", "Assoc", "Weak", "Inherent"},
                                   args \in AliasArgs }

\* Alias terms: the same, and two kinds of constants.
AliasTerms ==
    AliasTys \cup { AliasData(d, args) : d \in {"ConstProj", "AnonConst"}, args \in AliasArgs }

InitAlias ==
    /\ pc = "call"
    /\ \/ op = "AliasTy::relate" /\ a \in AliasTys /\ b \in AliasTys
       \/ op = "AliasTerm::relate" /\ a \in AliasTerms /\ b \in AliasTerms
    /\ cx \in Relations
    /\ res = NoResult

\* <ty::AliasTy as Relate>::relate(relation, a, b)
RelateAliasTy ==
    /\ pc = "call"
    /\ op = "AliasTy::relate"
    /\ res' = AliasTy_relate(cx, a, b)
    /\ pc' = "done"
    /\ UNCHANGED <<op, a, b, cx>>

\* <ty::AliasTerm as Relate>::relate(relation, a, b)
RelateAliasTerm ==
    /\ pc = "call"
    /\ op = "AliasTerm::relate"
    /\ res' = AliasTerm_relate(cx, a, b)
    /\ pc' = "done"
    /\ UNCHANGED <<op, a, b, cx>>

NextAlias == RelateAliasTy \/ RelateAliasTerm

SpecAlias == InitAlias /\ [][NextAlias]_vars

(***************************************************************************)
(* Properties of the relation of aliases (under SpecAlias)                 *)
(***************************************************************************)
DoneAlias == pc = "done" /\ op \in {"AliasTy::relate", "AliasTerm::relate"}

\* a is an alias of an opaque type.
IsOpaqueAlias ==
    IF op = "AliasTy::relate" THEN alias_kind(a.def_id) = "Opaque"
    ELSE alias_term_kind(a.def_id) = "OpaqueTy"

\* C16: two aliases (types or terms) of different items fail with
\* ProjectionMismatched(a's item, b's item).  Of the same item, the arguments
\* of an opaque type are related position by position under the variances of
\* the item, all with the default diagnostic info and without a fetch of the
\* type of the item, and the arguments of every other kind of alias all under
\* Invariant variance; the result is the alias of a's item with the related
\* arguments.
C16_Aliases ==
    DoneAlias =>
      IF a.def_id # b.def_id
      THEN res = [tag |-> "Err",
                  val |-> [err |-> "ProjectionMismatched",
                           ef |-> [expected |-> a.def_id, found |-> b.def_id]],
                  log |-> <<>>]
      ELSE LET outs == [i \in 1..Len(a.args) |->
                          relate_with_variance(
                            cx,
                            IF IsOpaqueAlias THEN variances_of(a.def_id)[i] ELSE "Invariant",
                            [info |-> "None"], "GenericArg", a.args[i], b.args[i])]
               outcome == FirstFailure(outs)
           IN  /\ res.tag = outcome.tag
               /\ res.log = outcome.log
               /\ res.val = IF outcome.tag = "Ok"
                            THEN [def_id |-> a.def_id, args |-> outcome.val]
                            ELSE outcome.val

\* Two opaque types of the same item: the first argument in a covariant, the
\* second in an invariant position, without diagnostic info and without a
\* fetch.
C16_Witness ==
    /\ DoneAlias
    /\ op = "AliasTy::relate"
    /\ a.def_id = "Opaque" /\ b.def_id = "Opaque"
    /\ a.args # b.args
    /\ res.tag = "Ok"
    /\ res.log[1] = Call("relate_with_variance", "Covariant", DiagNone, a.args[1], b.args[1])
    /\ \E i \in 2..Len(res.log) :
         res.log[i] = Call("relate_with_variance", "Invariant", DiagNone, a.args[2], b.args[2])
    /\ \A i \in 1..Len(res.log) : res.log[i].hook # "type_of"

\* Two alias terms of different items.
C16_Mismatched ==
    /\ DoneAlias
    /\ op = "AliasTerm::relate"
    /\ a.def_id = "ConstProj" /\ b.def_id = "AnonConst" /\ a.args = b.args
    /\ res.tag = "Err" /\ res.val.err = "ProjectionMismatched" /\ res.log = <<>>

\* A projection: the first argument in an invariant position.
C16_Projection ==
    /\ DoneAlias
    /\ a.def_id = "Assoc" /\ b.def_id = "Assoc"
    /\ res.log[1] = Call("relate_with_variance", "Invariant", DiagNone, a.args[1], b.args[1])

====
